---------------------------- MODULE Spec2Model ----------------------------
(***************************************************************************)
(* Model of the retrieval path of backend/smit_rag.py: the text splitter   *)
(* configured at lines 37-39, the index build of lines 43-45 and the       *)
(* retrieve_info tool of lines 50-59.                                      *)
(*                                                                         *)
(* The splitter, the vector store and the retriever are objects of the     *)
(* langchain / FAISS libraries; the module gives each call the library's   *)
(* semantics for the arguments smit_rag.py passes (keep_separator=True,    *)
(* is_separator_regex=False, strip_whitespace=True, length_function=len,   *)
(* a flat L2 index, search k = 4).  What a library leaves unspecified (the *)
(* order of equally distant entries) is a nondeterministic choice.         *)
(*                                                                         *)
(* Further sections model the student tools of backend/tools.py on the     *)
(* tables of backend/db.py, and the conversation memory of                 *)
(* backend/memory_store.py with the endpoints of backend/main.py.          *)
(***************************************************************************)
EXTENDS Naturals, Integers, Sequences, FiniteSets, TLC

(***************************************************************************)
(* Bounds of the model.                                                    *)
(***************************************************************************)
MaxDocLen == 5
MaxChunkSize == 3
MaxChunks == 5
MaxClock == 1
MaxWrites == 1
MaxRaceWrites == 3
MaxInserts == 2

None == "None"
\* the name vectorstore is not bound
NoIndex == <<>>

VARIABLES
    \* ---- the splitter, studied on its own (SpecChunk) ----
    document,       \* the text handed to the splitter, a sequence of characters
    in_size,        \* the chunk_size argument of the constructor
    in_overlap,     \* the chunk_overlap argument of the constructor
    in_seps,        \* the separators argument of the constructor
    splitter,       \* None, or the constructed splitter's fields
    cpc,            \* "new" | "configured" | "failed" | "done"
    cerror,         \* the exception raised by the constructor, or None
    chunks,         \* the result of split_documents: <<[start, text], ...>>
    \* ---- the module's import and the retrieve_info tool (Spec) ----
    pc,             \* where the import of smit_rag.py stands
    error,          \* the exception that ended the import, or None
    embed_fn,       \* the embedding provider: text -> vector
    docs,           \* line 40: the chunk texts
    vectorstore,    \* line 44: NoIndex (unbound), or <<the index>>: its entries
                    \* <<[id, text, vec], ...>> in insertion order
    embed_calls,    \* how many times build called embed_documents
    results,        \* line 57: the documents the retriever returned
    embed_fail,     \* 0, or the chunk whose embedding call raised
    context,        \* line 59: what retrieve_info returned (None before a call)
    qvec,           \* the embedding of the last query
    \* ---- the student tools of tools.py on the tables of db.py (SpecRoster) ----
    students,       \* the committed rows of the table students, a set of records
    activity_log,   \* the committed rows of the table activity_logs
    clock,          \* the time get_pkt_time() last returned
    next_id,        \* the next value of the autoincrement primary key
    call,           \* per caller: <<>>, or <<the tool call between its query
                    \* and its commit>>
    response,       \* <<>>, or <<the ApiResponse dict a tool just returned>>
    quota,          \* the workload: the number of rows activity_logs may
                    \* reach in the run
    \* ---- the conversation memory of memory_store.py and main.py (SpecMemory) ----
    mongo,          \* what `not short_term_col` does in this deployment:
                    \* "none" | "truthy" | "strict"
    short_term_col, \* the documents of short_term_memory, in insertion order
    long_term_col,  \* the documents of long_term_memory, in insertion order
    next_oid,       \* the next _id the driver gives an inserted document
    utcnow,         \* the time datetime.utcnow() last returned, in milliseconds
    thread_call,    \* <<>>, or <<the request that awaits the agent's answer>>
    reply           \* <<>>, or <<what a memory function or endpoint just returned>>

chunkVars == <<document, in_size, in_overlap, in_seps, splitter, cpc, cerror,
               chunks>>
ragVars == <<pc, error, embed_fn, docs, vectorstore, embed_calls, embed_fail,
             results, context, qvec>>
rosterVars == <<students, activity_log, clock, next_id, call, response, quota>>
memVars == <<mongo, short_term_col, long_term_col, next_oid, utcnow, thread_call,
             reply>>
appVars == <<rosterVars, memVars>>
vars == <<document, in_size, in_overlap, in_seps, splitter, cpc, cerror, chunks,
          pc, error, embed_fn, docs, vectorstore, embed_calls, embed_fail,
          results, context, qvec,
          students, activity_log, clock, next_id, call, response, quota,
          mongo, short_term_col, long_term_col, next_oid, utcnow, thread_call,
          reply>>

\* the callers that may run a tool at the same time
Callers == {1, 2}

\* no table row, no call under way
RosterEmpty ==
    /\ students = {} /\ activity_log = {} /\ clock = 0 /\ next_id = 1
    /\ call = [c \in Callers |-> <<>>] /\ response = <<>>
RosterIdle == RosterEmpty /\ quota = MaxWrites

\* both collections empty, no request under way
MemIdle ==
    /\ mongo = "truthy" /\ short_term_col = <<>> /\ long_term_col = <<>>
    /\ next_oid = 1 /\ utcnow = 0 /\ thread_call = <<>> /\ reply = <<>>

AppIdle == RosterIdle /\ MemIdle

Min(a, b) == IF a <= b THEN a ELSE b
Max(a, b) == IF a >= b THEN a ELSE b

(***************************************************************************)
(* The splitter: RecursiveCharacterTextSplitter(chunk_size, chunk_overlap, *)
(* separators=["\n\n", "\n", ".", " "]).  A piece of the text is the range *)
(* [lo, hi] of its positions in the document (hi = lo - 1: empty); a chunk *)
(* is its text with the offset of its first character.                     *)
(***************************************************************************)
Alphabet == {"a", " ", ".", "\n"}

Separators == << <<"\n", "\n">>, <<"\n">>, <<".">>, <<" ">> >>

\* str.strip() removes these
IsWhitespace(c) == c \in {" ", "\n"}

\* the separator sep stands at position i of the piece [lo, hi] of text
MatchAt(text, hi, sep, i) ==
    /\ i + Len(sep) - 1 <= hi
    /\ \A j \in 1..Len(sep) : text[i + j - 1] = sep[j]

\* re.search(re.escape(sep), piece)
re_search(text, lo, hi, sep) == \E i \in lo..hi : MatchAt(text, hi, sep, i)

\* the starts of the leftmost non-overlapping matches of sep from position i on,
\* as re.split finds them
RECURSIVE MatchStarts(_, _, _, _)
MatchStarts(text, hi, sep, i) ==
    IF i > hi THEN <<>>
    ELSE IF MatchAt(text, hi, sep, i)
         THEN <<i>> \o MatchStarts(text, hi, sep, i + Len(sep))
         ELSE MatchStarts(text, hi, sep, i + 1)

\* _split_text_with_regex(piece, sep, keep_separator=True): the piece is cut in
\* front of every match, so each separator starts the piece that follows it;
\* empty pieces are dropped
split_text_with_regex(text, lo, hi, sep) ==
    LET ms == MatchStarts(text, hi, sep, lo)
        n == Len(ms)
        raw == [k \in 1..(n + 1) |->
                  [lo |-> IF k = 1 THEN lo ELSE ms[k - 1],
                   hi |-> IF k = n + 1 THEN hi ELSE ms[k] - 1]]
    IN SelectSeq(raw, LAMBDA p : p.lo <= p.hi)

PieceLen(p) == p.hi - p.lo + 1

\* a strip() that also removes full stops
Strip_AlsoDots(text, lo, hi) ==
    LET keep == {i \in lo..hi : ~IsWhitespace(text[i]) /\ text[i] # "."}
    IN IF keep = {} THEN [lo |-> lo, hi |-> lo - 1]
       ELSE [lo |-> CHOOSE i \in keep : \A j \in keep : i <= j,
             hi |-> CHOOSE i \in keep : \A j \in keep : i >= j]

\* text.strip() of the piece [lo, hi]: the range left, empty if all is whitespace
Strip(text, lo, hi) ==
    LET keep == {i \in lo..hi : ~IsWhitespace(text[i])}
    IN IF keep = {} THEN [lo |-> lo, hi |-> lo - 1]
       ELSE [lo |-> CHOOSE i \in keep : \A j \in keep : i <= j,
             hi |-> CHOOSE i \in keep : \A j \in keep : i >= j]

MkChunk(text, lo, hi) == [start |-> lo, text |-> SubSeq(text, lo, hi)]

\* _join_docs(current_doc, ""): the pieces of current_doc are adjacent, their
\* concatenation is the range from the first one's start to the last one's end;
\* the result is stripped, and None (here: no chunk) when nothing is left
join_docs(text, cur) ==
    IF cur = <<>> THEN <<>>
    ELSE LET r == Strip(text, cur[1].lo, cur[Len(cur)].hi)
         IN IF r.hi < r.lo THEN <<>> ELSE <<MkChunk(text, r.lo, r.hi)>>

\* the while loop of _merge_splits: pop pieces off the front of current_doc
\* while it is longer than the overlap, or too long to take the next piece
RECURSIVE PopFront(_, _, _, _, _)
PopFront(cur, total, len, size, overlap) ==
    IF total > overlap \/ (total + len > size /\ total > 0)
    THEN PopFront(Tail(cur), total - PieceLen(cur[1]), len, size, overlap)
    ELSE [cur |-> cur, total |-> total]

\* _merge_splits(splits, separator=""): the for loop from split i on
RECURSIVE MergeLoop(_, _, _, _, _, _, _, _)
MergeLoop(text, splits, i, cur, total, out, size, overlap) ==
    IF i > Len(splits) THEN out \o join_docs(text, cur)
    ELSE LET d == splits[i]
             len == PieceLen(d)
         IN IF total + len > size /\ Len(cur) > 0
            THEN LET p == PopFront(cur, total, len, size, overlap)
                 IN MergeLoop(text, splits, i + 1, Append(p.cur, d),
                              p.total + len, out \o join_docs(text, cur),
                              size, overlap)
            ELSE MergeLoop(text, splits, i + 1, Append(cur, d), total + len,
                           out, size, overlap)

merge_splits(text, splits, size, overlap) ==
    MergeLoop(text, splits, 1, <<>>, 0, <<>>, size, overlap)

\* the first separator of seps found in the piece, or 0: the for loop that
\* opens _split_text
RECURSIVE FirstFound(_, _, _, _, _)
FirstFound(text, lo, hi, seps, i) ==
    IF i > Len(seps) THEN 0
    ELSE IF re_search(text, lo, hi, seps[i]) THEN i
    ELSE FirstFound(text, lo, hi, seps, i + 1)

\* RecursiveCharacterTextSplitter._split_text(piece, seps)
RECURSIVE split_text(_, _, _, _, _, _)
RECURSIVE SplitLoop(_, _, _, _, _, _, _, _)
SplitLoop(text, splits, i, good, final, new_seps, size, overlap) ==
    IF i > Len(splits)
    THEN IF good # <<>> THEN final \o merge_splits(text, good, size, overlap)
         ELSE final
    ELSE LET s == splits[i]
         IN IF PieceLen(s) < size
            THEN SplitLoop(text, splits, i + 1, Append(good, s), final,
                           new_seps, size, overlap)
            ELSE LET flushed == IF good # <<>>
                                THEN final \o merge_splits(text, good, size, overlap)
                                ELSE final
                     rest == IF new_seps = <<>>
                             THEN <<MkChunk(text, s.lo, s.hi)>>
                             ELSE split_text(text, s.lo, s.hi, new_seps, size, overlap)
                 IN SplitLoop(text, splits, i + 1, <<>>, flushed \o rest,
                              new_seps, size, overlap)

split_text(text, lo, hi, seps, size, overlap) ==
    LET f == FirstFound(text, lo, hi, seps, 1)
        separator == IF f = 0 THEN seps[Len(seps)] ELSE seps[f]
        new_seps == IF f = 0 THEN <<>> ELSE SubSeq(seps, f + 1, Len(seps))
        splits == split_text_with_regex(text, lo, hi, separator)
    IN SplitLoop(text, splits, 1, <<>>, <<>>, new_seps, size, overlap)

\* TextSplitter.__init__: the only check of the two sizes
ConfigRejected(size, overlap) == overlap > size

RECURSIVE SeqsUpTo(_, _)
SeqsUpTo(S, n) ==
    IF n = 0 THEN {<<>>}
    ELSE LET shorter == SeqsUpTo(S, n - 1)
         IN shorter \cup {Append(s, c) : s \in {t \in shorter : Len(t) = n - 1}, c \in S}

Documents == SeqsUpTo(Alphabet, MaxDocLen)

RagIdle ==
    /\ pc = "start" /\ error = None /\ embed_fn = <<>> /\ docs = <<>>
    /\ vectorstore = NoIndex /\ embed_calls = 0 /\ embed_fail = 0 /\ results = <<>>
    /\ context = None /\ qvec = None

InitChunk ==
    /\ document \in Documents
    /\ in_size \in 1..MaxChunkSize
    /\ in_overlap \in 0..MaxChunkSize
    /\ in_seps = Separators
    /\ splitter = None
    /\ cpc = "new"
    /\ cerror = None
    /\ chunks = <<>>
    /\ RagIdle
    /\ AppIdle

\* lines 37-39: the constructor raises ValueError or stores the two sizes as given
NewSplitter ==
    /\ cpc = "new"
    /\ IF ConfigRejected(in_size, in_overlap)
       THEN /\ cpc' = "failed"
            /\ cerror' = "ValueError"
            /\ UNCHANGED splitter
       ELSE /\ cpc' = "configured"
            /\ splitter' = [chunk_size |-> in_size, chunk_overlap |-> in_overlap,
                             separators |-> in_seps]
            /\ UNCHANGED cerror
    /\ UNCHANGED <<document, in_size, in_overlap, in_seps, chunks>>
    /\ UNCHANGED <<ragVars, appVars>>

\* line 40: docs = splitter.split_documents(documents)
SplitDocuments ==
    /\ cpc = "configured"
    /\ chunks' = split_text(document, 1, Len(document), splitter.separators,
                            splitter.chunk_size, splitter.chunk_overlap)
    /\ cpc' = "done"
    /\ UNCHANGED <<document, in_size, in_overlap, in_seps, splitter, cerror>>
    /\ UNCHANGED <<ragVars, appVars>>

NextChunk == NewSplitter \/ SplitDocuments

SpecChunk == InitChunk /\ [][NextChunk]_vars

\* the same splitter class constructed with one separator, ". ", and run on
\* the text "A. B. C." and its substrings
FixtureText == <<"A", ".", " ", "B", ".", " ", "C", ".">>
FixtureSeparators == << <<".", " ">> >>

Substrings(t) == {SubSeq(t, i, j) : i \in 1..(Len(t) + 1), j \in 0..Len(t)}

InitFixture ==
    /\ document \in Substrings(FixtureText)
    /\ in_size \in 1..Len(FixtureText)
    /\ in_overlap \in 0..Len(FixtureText)
    /\ in_seps = FixtureSeparators
    /\ splitter = None
    /\ cpc = "new"
    /\ cerror = None
    /\ chunks = <<>>
    /\ RagIdle
    /\ AppIdle

SpecFixture == InitFixture /\ [][NextChunk]_vars


(***************************************************************************)
(* The splitter's claims, checked under SpecChunk.                         *)
(***************************************************************************)
ChunkEnd(c) == c.start + Len(c.text) - 1

\* the characters chunk i + 1 repeats from the end of chunk i (negative: a gap)
Shared(i) == ChunkEnd(chunks[i]) - chunks[i + 1].start + 1

ValidConfig == in_overlap < in_size

\* the part of chunk i that lies behind the end of chunk i - 1
Segment(cs, i) ==
    LET skip == IF i = 1 THEN 0
                ELSE Min(Len(cs[i].text),
                         Max(0, ChunkEnd(cs[i - 1]) - cs[i].start + 1))
    IN SubSeq(cs[i].text, skip + 1, Len(cs[i].text))

RECURSIVE ConcatSegments(_, _)
ConcatSegments(cs, i) ==
    IF i > Len(cs) THEN <<>> ELSE Segment(cs, i) \o ConcatSegments(cs, i + 1)

\* C1 (as claimed): with overlap < max_size, every chunk has length <= max_size.
C1_ChunkWithinMax ==
    (cpc = "done" /\ ValidConfig) =>
        \A i \in 1..Len(chunks) : Len(chunks[i].text) <= in_size

\* C2 (as claimed): with overlap < max_size, consecutive chunks share exactly
\* `overlap` characters wherever both are long enough, a separator-free unit
\* longer than max_size excepted.
C2_ExactOverlap ==
    (cpc = "done" /\ ValidConfig) =>
        \A i \in 1..(Len(chunks) - 1) :
            ( /\ Len(chunks[i].text) <= in_size
              /\ Len(chunks[i + 1].text) <= in_size
              /\ Len(chunks[i].text) >= in_overlap
              /\ Len(chunks[i + 1].text) >= in_overlap )
            => Shared(i) = in_overlap

\* C3 (as claimed): the non-overlapping segments of the chunks, concatenated in
\* chunk order, are the document.
C3_RoundTrip ==
    (cpc = "done" /\ ValidConfig) => ConcatSegments(chunks, 1) = document

\* C3 (amended): every chunk is a contiguous substring of the document at its
\* offset, the chunks are in document order, and every character of the document
\* that is not whitespace lies in some chunk: only whitespace is lost.
C3_OnlyWhitespaceLost ==
    cpc = "done" =>
        /\ \A i \in 1..Len(chunks) :
              /\ chunks[i].text # <<>>
              /\ chunks[i].start >= 1 /\ ChunkEnd(chunks[i]) <= Len(document)
              /\ chunks[i].text = SubSeq(document, chunks[i].start, ChunkEnd(chunks[i]))
        /\ \A i \in 1..(Len(chunks) - 1) :
              /\ chunks[i].start <= chunks[i + 1].start
              /\ ChunkEnd(chunks[i]) <= ChunkEnd(chunks[i + 1])
        /\ \A p \in 1..Len(document) :
              ~IsWhitespace(document[p]) =>
                  \E i \in 1..Len(chunks) :
                      chunks[i].start <= p /\ p <= ChunkEnd(chunks[i])

\* a document with whitespace inside, split into several chunks that lose it
C3_Witness ==
    /\ cpc = "done" /\ ValidConfig
    /\ Len(chunks) >= 2
    /\ \E p \in 2..(Len(document) - 1) :
          /\ IsWhitespace(document[p])
          /\ \A i \in 1..Len(chunks) : p < chunks[i].start \/ p > ChunkEnd(chunks[i])
          /\ \E i, j \in 1..Len(chunks) : ChunkEnd(chunks[i]) < p /\ p < chunks[j].start

\* C4 (as claimed): a configuration with overlap >= max_size is rejected.
C4_RejectsOverlapGeSize ==
    (cpc # "new" /\ in_overlap >= in_size) =>
        (cpc = "failed" /\ cerror # None /\ chunks = <<>>)



(***************************************************************************)
(* The import of smit_rag.py and the retrieve_info tool (Spec).            *)
(*                                                                         *)
(* The chunk texts are drawn from TextPool: texts the splitter can return  *)
(* (non-empty, no whitespace at either end).  The embedding provider is a  *)
(* function from text to vector that is fixed for a run, and a call of it  *)
(* may fail.                                                               *)
(***************************************************************************)

\* line 45: as_retriever() searches with the retriever's default k
K == 4
\* line 58: results[:3]
MaxContextChunks == 3
\* line 59
Sentinel == "No relevant info found."
\* line 58: the joiner, a blank line
BlankLine == "\n\n"

TextPool == {"a", "b", Sentinel}
Vectors == {<<0, 0>>, <<1, 0>>, <<0, 1>>}
ChunkLists == SeqsUpTo(TextPool, MaxChunks)

\* the squared L2 distance of the flat index
Dist2(u, v) == (u[1] - v[1]) * (u[1] - v[1]) + (u[2] - v[2]) * (u[2] - v[2])

\* a build that indexes the chunks embedded before the failing call
from_documents_Partial(ds, fn, failAt) ==
    LET n == IF failAt # 0 THEN failAt - 1 ELSE Len(ds)
    IN IF n = 0 THEN [error |-> IF failAt # 0 THEN "EmbeddingError" ELSE "IndexError",
                      store |-> NoIndex]
       ELSE [error |-> None,
             store |-> <<[i \in 1..n |-> [id |-> i, text |-> ds[i], vec |-> fn[ds[i]]]]>>]

\* line 44: FAISS.from_documents(docs, embeddings).  embed_documents embeds every
\* text first (failAt # 0: the call for that chunk raises, and the exception
\* leaves from_documents); the index is then created with the dimension of the
\* first vector (IndexError when there is none) and filled with all entries.
from_documents(ds, fn, failAt) ==
    IF failAt # 0 THEN [error |-> "EmbeddingError", store |-> NoIndex]
    ELSE IF ds = <<>> THEN [error |-> "IndexError", store |-> NoIndex]
    ELSE [error |-> None,
          store |-> <<[i \in 1..Len(ds) |-> [id |-> i, text |-> ds[i], vec |-> fn[ds[i]]]]>>]

\* the Document of an index entry: its text (the metadata is the same for all)
MkDocument(e) == [page_content |-> e.text]

\* the result sequences of length m over the entries `left`: each next result is
\* one of the nearest entries not yet returned (of several entries with the same
\* text and vector, whose Documents are equal, the first stands for all)
RECURSIVE NearestFirst(_, _, _, _)
NearestFirst(store, left, q, m) ==
    IF m = 0 \/ left = {} THEN {<<>>}
    ELSE LET nearest == {i \in left : \A j \in left :
                            Dist2(store[i].vec, q) <= Dist2(store[j].vec, q)}
             picks == {i \in nearest : \A j \in nearest :
                            (store[j].text = store[i].text /\ store[j].vec = store[i].vec)
                                => i <= j}
         IN UNION {{<<MkDocument(store[i])>> \o r :
                        r \in NearestFirst(store, left \ {i}, q, m - 1)} : i \in picks}

\* a search that returns the first k entries in insertion order
similarity_search_FirstK(store, q, k) ==
    {[i \in 1..Min(k, Len(store)) |-> MkDocument(store[i])]}

\* line 57: retriever.get_relevant_documents(query), a flat nearest-neighbour
\* search for the k nearest entries, nearest first; the set of the sequences it
\* may return (entries at equal distance in any order)
similarity_search(store, q, k) == NearestFirst(store, DOMAIN store, q, k)

RECURSIVE JoinTexts(_, _)
JoinTexts(ts, sep) ==
    IF ts = <<>> THEN ""
    ELSE IF Len(ts) = 1 THEN ts[1]
    ELSE ts[1] \o sep \o JoinTexts(Tail(ts), sep)

\* an assembly without the slice
assemble_NoSlice(res) ==
    LET ctx == JoinTexts([i \in 1..Len(res) |-> res[i].page_content], BlankLine)
    IN IF ctx # "" THEN ctx ELSE Sentinel

\* lines 58-59
assemble(res) ==
    LET top == SubSeq(res, 1, Min(MaxContextChunks, Len(res)))
        ctx == JoinTexts([i \in 1..Len(top) |-> top[i].page_content], BlankLine)
    IN IF ctx # "" THEN ctx ELSE Sentinel

\* line 38
ChunkSize == 800
ChunkOverlap == 100

ChunkIdle ==
    /\ document = <<>> /\ in_size = ChunkSize /\ in_overlap = ChunkOverlap
    /\ in_seps = Separators
    /\ splitter = None /\ cpc = "new" /\ cerror = None /\ chunks = <<>>

Init ==
    /\ ChunkIdle
    /\ AppIdle
    /\ pc = "start"
    /\ error = None
    /\ embed_fn \in [TextPool -> Vectors]
    /\ docs = <<>>
    /\ vectorstore = NoIndex
    /\ embed_calls = 0
    /\ embed_fail = 0
    /\ results = <<>>
    /\ context = None
    /\ qvec = None

Crash(e) == pc' = "crashed" /\ error' = e

\* lines 13-16
LoadEnv ==
    /\ pc = "start"
    /\ \E key_set \in BOOLEAN :
          IF key_set THEN pc' = "env" /\ UNCHANGED error
          ELSE Crash("ValueError")
    /\ UNCHANGED <<embed_fn, docs, vectorstore, embed_calls, embed_fail,
                   results, context, qvec>>
    /\ UNCHANGED <<chunkVars, appVars>>

\* lines 29-31
CheckDataPath ==
    /\ pc = "env"
    /\ \E exists \in BOOLEAN :
          IF exists THEN pc' = "path" /\ UNCHANGED error
          ELSE Crash("FileNotFoundError")
    /\ UNCHANGED <<embed_fn, docs, vectorstore, embed_calls, embed_fail,
                   results, context, qvec>>
    /\ UNCHANGED <<chunkVars, appVars>>

\* lines 33-40: the document is loaded and split
LoadAndSplit ==
    /\ pc = "path"
    /\ docs' \in ChunkLists
    /\ pc' = "split"
    /\ UNCHANGED <<error, embed_fn, vectorstore, embed_calls, embed_fail,
                   results, context, qvec>>
    /\ UNCHANGED <<chunkVars, appVars>>

\* lines 43-44: one call of from_documents; its exception ends the import
BuildIndex ==
    /\ pc = "split"
    /\ \E failAt \in 0..Len(docs) :
          LET r == from_documents(docs, embed_fn, failAt)
          IN /\ embed_fail' = failAt
             /\ vectorstore' = r.store
             /\ IF r.error = None THEN pc' = "built" /\ UNCHANGED error
                ELSE Crash(r.error)
    /\ embed_calls' = embed_calls + 1
    /\ UNCHANGED <<embed_fn, docs, results, context, qvec>>
    /\ UNCHANGED <<chunkVars, appVars>>

\* lines 45-79: the retriever, the tool and the agent are defined
FinishImport ==
    /\ pc = "built"
    /\ pc' = "ready"
    /\ UNCHANGED <<error, embed_fn, docs, vectorstore, embed_calls, embed_fail,
                   results, context, qvec>>
    /\ UNCHANGED <<chunkVars, appVars>>

\* a retrieve that takes what it returns out of the index
RetrieveInfo_Consuming ==
    /\ pc = "ready"
    /\ context = None /\ error = None
    /\ \E q \in Vectors :
          \E res \in similarity_search(vectorstore[1], q, K) :
              /\ qvec' = q
              /\ results' = res
              /\ context' = assemble(res)
              /\ vectorstore' = <<SelectSeq(vectorstore[1],
                                   LAMBDA e : \A i \in DOMAIN res :
                                                 res[i].page_content # e.text)>>
    /\ UNCHANGED <<pc, error, embed_fn, docs, embed_calls, embed_fail>>
    /\ UNCHANGED <<chunkVars, appVars>>

\* lines 50-59: a call of retrieve_info(query); q is the embedding of the query.
\* results and context are the call's locals and its return value.  The
\* retriever embeds the query through the provider (line 57): when that call
\* fails, its exception leaves retrieve_info, which has no handler, and
\* nothing is returned; `error` then holds the exception of the call.
RetrieveInfo ==
    /\ pc = "ready"
    /\ context = None /\ error = None
    /\ \/ /\ \E q \in Vectors :
                \E res \in similarity_search(vectorstore[1], q, K) :
                    /\ qvec' = q
                    /\ results' = res
                    /\ context' = assemble(res)
          /\ UNCHANGED error
       \/ /\ error' = "EmbeddingError"
          /\ UNCHANGED <<results, context, qvec>>
    /\ UNCHANGED <<pc, embed_fn, docs, vectorstore, embed_calls, embed_fail>>
    /\ UNCHANGED <<chunkVars, appVars>>

\* line 59: the call has returned or raised, its locals are gone
ReturnContext ==
    /\ pc = "ready"
    /\ context # None \/ error # None
    /\ results' = <<>>
    /\ context' = None
    /\ qvec' = None
    /\ error' = None
    /\ UNCHANGED <<pc, embed_fn, docs, vectorstore, embed_calls, embed_fail>>
    /\ UNCHANGED <<chunkVars, appVars>>

Next ==
    \/ LoadEnv
    \/ CheckDataPath
    \/ LoadAndSplit
    \/ BuildIndex
    \/ FinishImport
    \/ RetrieveInfo
    \/ ReturnContext

Spec == Init /\ [][Next]_vars


(***************************************************************************)
(* The claims about the index and retrieve_info, checked under Spec.       *)
(***************************************************************************)
Answered == pc = "ready" /\ context # None

\* how often the text t is among the results / in the index
InResults(t) == Cardinality({i \in DOMAIN results : results[i].page_content = t})
IndexEntries == vectorstore[1]
InIndex(t) == Cardinality({i \in DOMAIN IndexEntries : IndexEntries[i].text = t})

\* the distance to the query of the entries whose text is t
DistOf(t) == Dist2(embed_fn[t], qvec)

\* C5: a search on an index of n entries returns exactly min(k, n) results, all
\* of them entries of the index, ordered by non-increasing similarity (that is,
\* non-decreasing distance), and no entry left out is nearer than one returned.
C5_TopK ==
    Answered =>
        /\ Len(results) = Min(K, Len(IndexEntries))
        /\ \A t \in TextPool : InResults(t) <= InIndex(t)
        /\ \A i \in DOMAIN results : results[i].page_content \in TextPool
        /\ \A i \in 1..(Len(results) - 1) :
              DistOf(results[i].page_content) <= DistOf(results[i + 1].page_content)
        /\ \A t \in TextPool :
              InResults(t) < InIndex(t) =>
                  \A i \in DOMAIN results : DistOf(results[i].page_content) <= DistOf(t)

\* a search on more than k entries at different distances, one strictly farther
\* entry left out
C5_Witness ==
    /\ Answered
    /\ Len(IndexEntries) > K
    /\ Len(results) = K
    /\ DistOf(results[1].page_content) < DistOf(results[K].page_content)
    /\ \E t \in TextPool :
          /\ InResults(t) = 0 /\ InIndex(t) > 0
          /\ DistOf(t) > DistOf(results[K].page_content)

\* C7: a failing embedding call ends the build with the embedder's error and
\* leaves no index; an index that exists holds one entry per chunk, in chunk
\* order, each with its chunk's vector; the build calls the embedder once.
C7_NoPartialIndex ==
    /\ embed_calls <= 1
    /\ embed_fail # 0 =>
          (pc = "crashed" /\ error = "EmbeddingError" /\ vectorstore = NoIndex)
    /\ vectorstore # NoIndex =>
          /\ embed_fail = 0
          /\ Len(IndexEntries) = Len(docs)
          /\ \A i \in DOMAIN IndexEntries :
                /\ IndexEntries[i].text = docs[i]
                /\ IndexEntries[i].vec = embed_fn[docs[i]]

\* the embedding of a later chunk failed, after the first chunks were embedded
C7_Witness ==
    /\ pc = "crashed" /\ error = "EmbeddingError"
    /\ embed_fail >= 2 /\ embed_fail < Len(docs)
    /\ vectorstore = NoIndex

\* C9 (as claimed): a retrieve on an empty index returns no result and then the
\* sentinel; the sentinel is returned only when no chunk was retrieved.
C9_SentinelOnlyWhenEmpty ==
    Answered =>
        /\ Len(IndexEntries) = 0 => (results = <<>> /\ context = Sentinel)
        /\ context = Sentinel => results = <<>>

\* C10: the context is the texts of the first min(3, n) results, best match
\* first, joined by a blank line; a fourth result is not part of it.
C10_ContextOfTopThree ==
    (Answered /\ results # <<>>) =>
        LET t(i) == results[i].page_content
        IN /\ Len(results) = 1 => context = t(1)
           /\ Len(results) = 2 => context = t(1) \o "\n\n" \o t(2)
           /\ Len(results) >= 3 => context = t(1) \o "\n\n" \o t(2) \o "\n\n" \o t(3)

\* four results, the fourth with a text of its own, left out of the context
C10_Witness ==
    /\ Answered
    /\ Len(results) = 4
    /\ results[1].page_content # results[3].page_content
    /\ \A i \in 1..3 : results[4].page_content # results[i].page_content
    /\ context = results[1].page_content \o "\n\n" \o results[2].page_content
                    \o "\n\n" \o results[3].page_content


\* C11: once the import has built the index, no call of retrieve_info changes
\* it (the entries, their chunk, vector and order stay as they are), and what a
\* call returns is the search of that index for its own query, assembled:
\* nothing of an earlier call enters it.
C11_QueriesLeaveIndex ==
    [][ pc = "ready" =>
          /\ vectorstore' = vectorstore
          /\ docs' = docs
          /\ (context = None /\ context' # None) =>
                /\ results' \in similarity_search(vectorstore[1], qvec', K)
                /\ context' = assemble(results') ]_vars

\* a call has returned entries of an index that still holds all its chunks
C11_Witness ==
    /\ Answered
    /\ results # <<>>
    /\ Len(IndexEntries) = Len(docs)
    /\ Len(IndexEntries) >= 2
    /\ \A i \in DOMAIN IndexEntries : IndexEntries[i].text = docs[i]

\* the import of the module is under way: `import backend.smit_rag` has not
\* returned yet
Importing == pc \in {"start", "env", "path", "split", "built"}

\* C12 (as claimed): loading the module neither reads the source document nor
\* calls the embedder nor builds the index, and a missing document or an
\* unreachable embedding provider does not end the loading with an exception.
C12_LoadingBuildsNothing ==
    /\ ~(pc = "crashed" /\ error \in {"FileNotFoundError", "EmbeddingError"})
    /\ Importing => (docs = <<>> /\ embed_calls = 0 /\ vectorstore = NoIndex)


(***************************************************************************)
(* The student tools of backend/tools.py on the tables of backend/db.py.   *)
(* A string is the sequence of its characters.  The request models are     *)
(* pydantic models: a field's length bounds are checked on the string as   *)
(* given, then the field's validator runs; any failure is a ValidationError,*)
(* which is a ValueError.                                                  *)
(***************************************************************************)
LowerCase == <<"a", "b", "c", "d", "e", "f", "g", "h", "i", "j", "k", "l", "m",
               "n", "o", "p", "q", "r", "s", "t", "u", "v", "w", "x", "y", "z">>
UpperCase == <<"A", "B", "C", "D", "E", "F", "G", "H", "I", "J", "K", "L", "M",
               "N", "O", "P", "Q", "R", "S", "T", "U", "V", "W", "X", "Y", "Z">>
Digits == {"0", "1", "2", "3", "4", "5", "6", "7", "8", "9"}

IsLower(c) == \E i \in DOMAIN LowerCase : LowerCase[i] = c
IsUpper(c) == \E i \in DOMAIN UpperCase : UpperCase[i] = c
IsLetter(c) == IsLower(c) \/ IsUpper(c)
UpperChar(c) ==
    IF IsLower(c) THEN UpperCase[CHOOSE i \in DOMAIN LowerCase : LowerCase[i] = c] ELSE c
LowerChar(c) ==
    IF IsUpper(c) THEN LowerCase[CHOOSE i \in DOMAIN UpperCase : UpperCase[i] = c] ELSE c

\* str.upper(), str.lower()
upper(v) == [i \in 1..Len(v) |-> UpperChar(v[i])]
lower(v) == [i \in 1..Len(v) |-> LowerChar(v[i])]

\* str.title(): a letter is upper-cased when no letter stands in front of it,
\* lower-cased otherwise
title(v) ==
    [i \in 1..Len(v) |->
        IF i > 1 /\ IsLetter(v[i - 1]) THEN LowerChar(v[i]) ELSE UpperChar(v[i])]

\* ' '.join(value.strip().split()): out is what has been written, gap tells
\* that whitespace was passed since
RECURSIVE JoinWords(_, _, _)
JoinWords(v, out, gap) ==
    IF v = <<>> THEN out
    ELSE IF IsWhitespace(Head(v)) THEN JoinWords(Tail(v), out, out # <<>>)
    ELSE JoinWords(Tail(v), (IF gap THEN Append(out, " ") ELSE out) \o <<Head(v)>>,
                   FALSE)

\* lines 48-53
sanitize_input(value) ==
    JoinWords(SelectSeq(value, LAMBDA c : c \notin {"<", ">", ";", "{", "}"}),
              <<>>, FALSE)

\* re.match(r'^[A-Za-z0-9_-]+$', v), for a v without line break
IdFormat(v) ==
    /\ v # <<>>
    /\ \A i \in DOMAIN v : IsLetter(v[i]) \/ v[i] \in Digits \/ v[i] \in {"_", "-"}

\* the Field bounds of the request models
NameMinLen == 2
NameMaxLen == 100
IdMinLen == 3
IdMaxLen == 50

LengthOk(v, lo, hi) == Len(v) >= lo /\ Len(v) <= hi

\* value.strip(), as EmailStr applies it
StripEnds(v) ==
    LET keep == {i \in DOMAIN v : ~IsWhitespace(v[i])}
    IN IF keep = {} THEN <<>>
       ELSE SubSeq(v, CHOOSE i \in keep : \A j \in keep : i <= j,
                      CHOOSE i \in keep : \A j \in keep : i >= j)

\* the positions of the character c in v
Positions(v, c) == {i \in DOMAIN v : v[i] = c}

\* pydantic's bound on the length of the value EmailStr is given
MAX_EMAIL_LENGTH == 2048

\* name_chars of pydantic's pretty_email_regex: a word character or one of
\* ! # $ % & ' * + - / = ? ^ _ { | } ~ (and the backquote, which a string of
\* this notation cannot hold)
IsNameChar(c) ==
    \/ IsLetter(c) \/ c \in Digits
    \/ c \in {"_", "!", "#", "$", "%", "&", "'", "*", "+", "-", "/", "=", "?",
              "^", "{", "|", "}", "~"}

\* the "<" at position i of value can open the address of pretty_email_regex:
\* in front of it stand whitespace only, or a display name (words of name
\* characters, or any text between double quotes) and whitespace
OpensAddress(value, i) ==
    /\ value[i] = "<"
    /\ LET s == CHOOSE k \in 1..i :
                   ~IsWhitespace(value[k]) /\ \A j \in 1..(k - 1) : IsWhitespace(value[j])
       IN \/ s = i
          \/ /\ IsNameChar(value[s])
             /\ \A k \in s..(i - 1) : IsNameChar(value[k]) \/ IsWhitespace(value[k])
          \/ /\ value[s] = "\""
             /\ \E q \in (s + 2)..(i - 1) :
                   /\ value[q] = "\""
                   /\ \A k \in (q + 1)..(i - 1) : IsWhitespace(value[k])

\* pretty_email_regex.fullmatch(value): the pairs <<i, j>> of an opening "<"
\* and the closing ">" (only whitespace behind it) with at least one character
\* and no line break between them
PrettyMatches(value) ==
    LET opens == {i \in DOMAIN value : OpensAddress(value, i)}
        closes == {j \in DOMAIN value :
                     /\ value[j] = ">"
                     /\ \A k \in (j + 1)..Len(value) : IsWhitespace(value[k])}
    IN {m \in opens \X closes :
           /\ m[2] > m[1] + 1
           /\ \A k \in (m[1] + 1)..(m[2] - 1) : value[k] # "\n"}

\* the address group of the match the regex finds: the quoted name and the
\* address are matched greedily, so the last opening and then the last closing
\* bracket; the value itself without a match
pretty_email_regex(value) ==
    LET ms == PrettyMatches(value)
    IN IF ms = {} THEN value
       ELSE LET m == CHOOSE x \in ms :
                        \A y \in ms : y[1] < x[1] \/ (y[1] = x[1] /\ y[2] <= x[2])
            IN SubSeq(value, m[1] + 1, m[2] - 1)

\* email_validator.validate_email(email, check_deliverability=False) accepts
\* local@domain: one "@", a non-empty local part, a domain of non-empty labels
\* joined by ".", at least two of them, and no whitespace or bracket character
\* anywhere
validate_email_accepts(e) ==
    LET ats == Positions(e, "@")
    IN /\ Cardinality(ats) = 1
       /\ LET at == CHOOSE i \in ats : TRUE
              dots == {i \in Positions(e, ".") : i > at}
          IN /\ at > 1
             /\ dots # {}
             /\ e[1] # "." /\ e[at - 1] # "."
             /\ \A i \in dots : i > at + 1 /\ i < Len(e) /\ e[i + 1] # "."
             /\ \A i \in DOMAIN e :
                   /\ ~IsWhitespace(e[i])
                   /\ e[i] \notin {"<", ">", ";", "{", "}", "(", ")", ","}

\* pydantic's validate_email, as EmailStr applies it: a value of more than
\* MAX_EMAIL_LENGTH characters is rejected; of "name <address>" the address
\* is taken; it is stripped and handed to the library
EmailOk(v) ==
    /\ Len(v) <= MAX_EMAIL_LENGTH
    /\ validate_email_accepts(StripEnds(pretty_email_regex(v)))

\* the value EmailStr returns: the address handed to the library, the part
\* from "@" on in lower case
EmailValue(v) ==
    LET e == StripEnds(pretty_email_regex(v))
        at == CHOOSE i \in Positions(e, "@") : TRUE
    IN SubSeq(e, 1, at - 1) \o lower(SubSeq(e, at, Len(e)))

\* a failed validation: the ValidationError the constructor raises
Invalid == [valid |-> FALSE]

\* lines 66-71 (and 80-85, the same for department)
validate_name(v) == title(sanitize_input(v))
NameOk(v) == LengthOk(v, NameMinLen, NameMaxLen) /\ sanitize_input(v) # <<>>

\* a check of the length only
StudentIdOk_LengthOnly(v) == LengthOk(v, IdMinLen, IdMaxLen)

\* lines 73-78
validate_student_id(v) == upper(sanitize_input(v))
StudentIdOk(v) == LengthOk(v, IdMinLen, IdMaxLen) /\ IdFormat(sanitize_input(v))

\* lines 59-85: AddStudentRequest(name=..., student_id=..., department=...,
\* email=...), the validated and normalised fields or Invalid
AddStudentRequest(name, student_id, department, email) ==
    IF NameOk(name) /\ StudentIdOk(student_id) /\ NameOk(department) /\ EmailOk(email)
    THEN [valid |-> TRUE,
          name |-> validate_name(name),
          student_id |-> validate_student_id(student_id),
          department |-> validate_name(department),
          email |-> EmailValue(email)]
    ELSE Invalid

\* a request model that keeps the case of the student_id
GetStudentRequest_NoUpper(student_id) ==
    IF LengthOk(student_id, IdMinLen, IdMaxLen) /\ sanitize_input(student_id) # <<>>
    THEN [valid |-> TRUE, student_id |-> sanitize_input(student_id)]
    ELSE Invalid

\* lines 87-96 (and 131-140): GetStudentRequest / DeleteStudentRequest
GetStudentRequest(student_id) ==
    IF LengthOk(student_id, IdMinLen, IdMaxLen) /\ sanitize_input(student_id) # <<>>
    THEN [valid |-> TRUE, student_id |-> upper(sanitize_input(student_id))]
    ELSE Invalid

\* lines 98-129: UpdateStudentRequest(student_id=..., field=..., new_value=...)
ValidFields == {"name", "department", "email", "is_active"}

NewValueOk(field, v) ==
    /\ field \in {"name", "department"} => Len(v) >= 2
    /\ field = "email" => Positions(v, "@") # {}

\* a request model without validate_field
UpdateStudentRequest_AnyField(student_id, field, new_value) ==
    IF /\ LengthOk(student_id, IdMinLen, IdMaxLen)
       /\ sanitize_input(student_id) # <<>>
       /\ NewValueOk(field, sanitize_input(new_value))
    THEN [valid |-> TRUE,
          student_id |-> upper(sanitize_input(student_id)),
          field |-> field,
          new_value |-> sanitize_input(new_value)]
    ELSE Invalid

UpdateStudentRequest(student_id, field, new_value) ==
    IF /\ LengthOk(student_id, IdMinLen, IdMaxLen)
       /\ sanitize_input(student_id) # <<>>
       /\ field \in ValidFields
       /\ NewValueOk(field, sanitize_input(new_value))
    THEN [valid |-> TRUE,
          student_id |-> upper(sanitize_input(student_id)),
          field |-> field,
          new_value |-> sanitize_input(new_value)]
    ELSE Invalid

\* lines 142-144: limit: int = Field(default=5, ge=1, le=100)
RecentMinLimit == 1
RecentMaxLimit == 100

RecentStudentsRequest(limit) ==
    IF limit >= RecentMinLimit /\ limit <= RecentMaxLimit
    THEN [valid |-> TRUE, limit |-> limit]
    ELSE Invalid

\* db.py lines 19-29: a new row of the table students
Student(id, req, created_at, updated_at) ==
    [id |-> id, student_id |-> req.student_id, name |-> req.name,
     department |-> req.department, email |-> req.email, is_active |-> TRUE,
     created_at |-> created_at, updated_at |-> updated_at]

\* db.py lines 31-38: a new row of the table activity_logs; no row of it is
\* ever deleted, and id numbers the rows in the order they were stored
ActivityLog(student_id, activity_type, timestamp) ==
    [id |-> Cardinality(activity_log) + 1, student_id |-> student_id,
     activity_type |-> activity_type, timestamp |-> timestamp]

\* a table that enforces only the uniqueness of student_id
UniqueViolation_IdOnly(rows, row) ==
    \E r \in rows : r.id # row.id /\ r.student_id = row.student_id

\* db.py lines 23 and 26, unique=True: the INSERT or UPDATE that would leave
\* `row` beside another row with its student_id or its email raises
\* IntegrityError
UniqueViolation(rows, row) ==
    \E r \in rows :
        r.id # row.id /\ (r.student_id = row.student_id \/ r.email = row.email)

\* the ApiResponse dict of lines 157-162 (request_id left out); message is the
\* text up to the colon, args the arguments of the call
ApiResponse(op, args, success, message, data) ==
    <<[op |-> op, args |-> args, success |-> success, message |-> message,
       data |-> data]>>

\* lines 17-27: the dict of a row (the row itself)
student_to_response(student) == student

\* db.query(Student).filter(Student.student_id == id).first()
ByStudentId(id) == {r \in students : r.student_id = id}

\* order_by(desc(Student.created_at)): the rows of S, latest first; the order
\* of rows with the same created_at is the server's choice
OrderByCreatedDesc(S) ==
    {ordered \in [1..Cardinality(S) -> S] :
        /\ \A i, j \in DOMAIN ordered : i # j => ordered[i] # ordered[j]
        /\ \A i \in DOMAIN ordered :
              i < Cardinality(S) =>
                 ordered[i].created_at >= ordered[i + 1].created_at}

\* the arguments the tools are called with
AcceptedNames == {<<"j", "o">>}
RejectedNames == {<<" ", " ", " ">>, <<>>}
AcceptedIds == {<<"s", "t", "1">>, <<"s", "<", "t", "1">>, <<"<", "<", "s">>}
RejectedIds == {<<"s", "t">>, <<"s", " ", "1">>}
AcceptedDepartments == {<<"c", "s">>}
RejectedDepartments == {<<>>}
LongEmail ==
    [i \in 1..(MAX_EMAIL_LENGTH + 1) |->
        CASE i = 1 -> "a" [] i = 2 -> "@" [] i = MAX_EMAIL_LENGTH -> "."
          [] i = MAX_EMAIL_LENGTH + 1 -> "c" [] OTHER -> "x"]
RejectedEmails == {<<"a", "b">>, LongEmail}
PrettyEmail == <<"j", "o", " ", "<", "a", "@", "x", ".", "c", ">">>
StudentIdInputs == AcceptedIds \cup RejectedIds
UpdateInputs ==
    {<<"email", <<"a", "@", "x", ".", "c">>>>, <<"email", <<"b", "@", "x", ".", "c">>>>,
     <<"is_active", <<"n", "o">>>>, <<"name", <<"c", "<", "d">>>>,
     <<"student_id", <<"s", "t", "2">>>>}
LimitInputs == {0, 10, 51, 100, 101}

\* add_student is called with accepted arguments (every accepted id with the
\* email a@x.c, and one id with b@x.c as well), with the arguments of
\* test_validations.py, lines 24-29 (here <<"j", "o">>, <<"s", "t", "1">>,
\* <<"c", "s">>, <<"a", "@", "x", ".", "c">>) of which one is replaced by a
\* rejected one, or with none accepted (test_all_fixes.py, lines 195-200)
AddInputs ==
    (AcceptedNames \X AcceptedIds \X AcceptedDepartments
        \X {<<"a", "@", "x", ".", "c">>})
    \cup {<<<<"j", "o">>, <<"<", "<", "s">>, <<"c", "s">>,
            <<"b", "@", "x", ".", "c">>>>}
    \cup {<<<<"j", "o">>, <<"s", "t", "1">>, <<"c", "s">>, PrettyEmail>>}
    \cup {<<n, <<"s", "t", "1">>, <<"c", "s">>, <<"a", "@", "x", ".", "c">>>> :
             n \in RejectedNames}
    \cup {<<<<"j", "o">>, i, <<"c", "s">>, <<"a", "@", "x", ".", "c">>>> :
             i \in RejectedIds}
    \cup {<<<<"j", "o">>, <<"s", "t", "1">>, d, <<"a", "@", "x", ".", "c">>>> :
             d \in RejectedDepartments}
    \cup {<<<<"j", "o">>, <<"s", "t", "1">>, <<"c", "s">>, e>> : e \in RejectedEmails}
    \cup {<<<<>>, <<"s", "t">>, <<>>, <<"a", "b">>>>}

\* the student ids update_student, delete_student and get_student are called with
UpdateIdInputs == {<<"s", "t", "1">>, <<"s", "t", "2">>, <<"s", "t">>}
GetIdInputs == UpdateIdInputs \cup {<<"<", "<", "s">>}

\* the request models tabulated over the arguments, as pairs <<arguments,
\* request>>, and the request a table holds for the arguments a
AddStudentRequests ==
    {<<a, AddStudentRequest(a[1], a[2], a[3], a[4])>> : a \in AddInputs}
GetStudentRequests ==
    {<<id, GetStudentRequest(id)>> : id \in StudentIdInputs \cup GetIdInputs}
UpdateStudentRequests ==
    {<<a, UpdateStudentRequest(a[1], a[2], a[3])>> :
        a \in {<<id, u[1], u[2]>> : id \in UpdateIdInputs, u \in UpdateInputs}}
RequestOf(table, a) == (CHOOSE k \in table : k[1] = a)[2]

\* a tool may start when its caller is not inside another one and the last
\* response has been taken
CanCall(c) == call[c] = <<>> /\ response = <<>>

\* get_pkt_time() (lines 42-44), datetime.utcnow() in PKT: a read gives the
\* time of the last read or a later one (the clock has a resolution, and two
\* reads may fall on the same value); the times the model tells apart end at
\* MaxClock
get_pkt_time == {clock} \cup {t \in {clock + 1} : t <= MaxClock}

\* the steps of the tools that write, named after the step the call has done
BeforeFlush == {"add_student", "add_student_created_at", "add_student_updated_at"}
BeforeCommit ==
    BeforeFlush \cup
    {"add_student_flushed", "add_student_timestamp",
     "update_student", "update_student_updated_at", "update_student_timestamp",
     "delete_student", "delete_student_timestamp"}
At(c, ops) == call[c] # <<>> /\ call[c][1].op \in ops

\* the tools that write start only while fewer log entries than the workload
\* has are committed or may yet be, and add_student only while the primary
\* keys it may take do not pass that number
CanWrite ==
    Cardinality(activity_log) + Cardinality({c \in Callers : At(c, BeforeCommit)})
        < quota
CanAdd ==
    /\ CanWrite
    /\ next_id + Cardinality({c \in Callers : At(c, BeforeFlush)}) <= quota

Respond(op, args, success, message, data) ==
    response' = ApiResponse(op, args, success, message, data)

\* the call of c goes on to its next step, with the times it has read
GoOn(c, op, loaded, stamps) ==
    call' = [call EXCEPT ![c] =
               <<[op |-> op, args |-> call[c][1].args,
                  request |-> call[c][1].request, loaded |-> loaded,
                  stamps |-> stamps]>>]

\* the rows other callers have inserted and not yet committed
Flushed(c) ==
    {call[d][1].loaded[1] :
        d \in {e \in Callers \ {c} :
                 At(e, {"add_student_flushed", "add_student_timestamp"})}}

\* the INSERT of `row` waits for the transaction of another caller that holds
\* an uncommitted row with its student_id or its email
Waits(c, row) ==
    \E r \in Flushed(c) : r.student_id = row.student_id \/ r.email = row.email

\* lines 178-193 of add_student: the request is validated and the table is
\* searched for a row with the student_id or the email
add_student(c, name, student_id, department, email) ==
    /\ CanCall(c)
    /\ LET args == <<name, student_id, department, email>>
           request == RequestOf(AddStudentRequests, args)
       IN IF ~request.valid
          THEN /\ Respond("add_student", args, FALSE, "Validation error", <<>>)
               /\ UNCHANGED call
          ELSE \/ /\ Respond("add_student", args, FALSE, "Error adding student",
                              <<>>)
                  /\ UNCHANGED call
               \/ /\ \E r \in students :
                        r.student_id = request.student_id \/ r.email = request.email
                  /\ Respond("add_student", args, FALSE,
                             "Student with this ID or email already exists", <<>>)
                  /\ UNCHANGED call
               \/ /\ ~\E r \in students :
                        r.student_id = request.student_id \/ r.email = request.email
                  /\ CanAdd
                  /\ call' = [call EXCEPT ![c] =
                                <<[op |-> "add_student", args |-> args,
                                   request |-> request, loaded |-> <<>>,
                                   stamps |-> <<>>]>>]
                  /\ UNCHANGED response
    /\ UNCHANGED <<students, activity_log, clock, next_id, quota>>
    /\ UNCHANGED <<chunkVars, ragVars, memVars>>

\* line 200 of add_student: created_at=get_pkt_time()
add_student_created_at(c) ==
    /\ At(c, {"add_student"})
    /\ response = <<>>
    /\ \E now \in get_pkt_time :
          /\ clock' = now
          /\ GoOn(c, "add_student_created_at", call[c][1].loaded,
                  Append(call[c][1].stamps, now))
    /\ UNCHANGED <<students, activity_log, next_id, response, quota>>
    /\ UNCHANGED <<chunkVars, ragVars, memVars>>

\* line 201 of add_student: updated_at=get_pkt_time()
add_student_updated_at(c) ==
    /\ At(c, {"add_student_created_at"})
    /\ response = <<>>
    /\ \E now \in get_pkt_time :
          /\ clock' = now
          /\ GoOn(c, "add_student_updated_at", call[c][1].loaded,
                  Append(call[c][1].stamps, now))
    /\ UNCHANGED <<students, activity_log, next_id, response, quota>>
    /\ UNCHANGED <<chunkVars, ragVars, memVars>>

\* lines 204-205 of add_student: db.flush() sends the INSERT, which takes the
\* next primary key and checks the unique constraints against the committed
\* rows (IntegrityError).  A key taken by a failed INSERT is not given again.
\* An exception leaves the `with` block, which rolls back, and is answered by
\* the handler of line 225.
add_student_flush(c) ==
    /\ At(c, {"add_student_updated_at"})
    /\ response = <<>>
    /\ LET request == call[c][1].request
           stamps == call[c][1].stamps
           new_student == Student(next_id, request, stamps[1], stamps[2])
       IN \/ /\ Respond("add_student", call[c][1].args, FALSE,
                         "Error adding student", <<>>)
             /\ call' = [call EXCEPT ![c] = <<>>]
             /\ \/ next_id' = next_id
                \/ /\ UniqueViolation(students, new_student)
                   /\ next_id' = next_id + 1
          \/ /\ ~UniqueViolation(students, new_student)
             /\ ~Waits(c, new_student)
             /\ next_id' = next_id + 1
             /\ GoOn(c, "add_student_flushed", <<new_student>>, stamps)
             /\ UNCHANGED response
    /\ UNCHANGED <<students, activity_log, clock, quota>>
    /\ UNCHANGED <<chunkVars, ragVars, memVars>>

\* lines 207-212 of add_student: the log entry is built, with
\* timestamp=get_pkt_time()
add_student_timestamp(c) ==
    /\ At(c, {"add_student_flushed"})
    /\ response = <<>>
    /\ \E now \in get_pkt_time :
          /\ clock' = now
          /\ GoOn(c, "add_student_timestamp", call[c][1].loaded,
                  Append(call[c][1].stamps, now))
    /\ UNCHANGED <<students, activity_log, next_id, response, quota>>
    /\ UNCHANGED <<chunkVars, ragVars, memVars>>

\* lines 213-214 of add_student: the row and its log entry are committed, or
\* the commit fails and both are rolled back.  The commit ends the
\* transaction and expires new_student; the call goes on at line 216 with the
\* primary key of its row.
add_student_commit(c) ==
    /\ At(c, {"add_student_timestamp"})
    /\ response = <<>>
    /\ LET request == call[c][1].request
           new_student == call[c][1].loaded[1]
       IN \/ /\ Respond("add_student", call[c][1].args, FALSE,
                         "Error adding student", <<>>)
             /\ call' = [call EXCEPT ![c] = <<>>]
             /\ UNCHANGED <<students, activity_log>>
          \/ /\ students' = students \cup {new_student}
             /\ activity_log' = activity_log \cup
                   {ActivityLog(request.student_id, "student_created",
                                call[c][1].stamps[3])}
             /\ GoOn(c, "add_student_committed", <<new_student>>,
                     call[c][1].stamps)
             /\ UNCHANGED response
    /\ UNCHANGED <<clock, next_id, quota>>
    /\ UNCHANGED <<chunkVars, ragVars, memVars>>

\* lines 216-221 of add_student: student_to_response (line 219) reads the
\* expired row back by its primary key, in a new transaction: the response
\* carries the row as it is now.  A row deleted since the commit
\* (ObjectDeletedError) or a database error is answered by the handler of
\* line 225, after the commit.
add_student_response(c) ==
    /\ At(c, {"add_student_committed"})
    /\ response = <<>>
    /\ LET rows == {r \in students : r.id = call[c][1].loaded[1].id}
       IN \/ Respond("add_student", call[c][1].args, FALSE,
                      "Error adding student", <<>>)
          \/ \E new_student \in rows :
                Respond("add_student", call[c][1].args, TRUE,
                        "Student added successfully",
                        <<student_to_response(new_student)>>)
    /\ call' = [call EXCEPT ![c] = <<>>]
    /\ UNCHANGED <<students, activity_log, clock, next_id, quota>>
    /\ UNCHANGED <<chunkVars, ragVars, memVars>>

\* lines 229-258
get_student(c, student_id) ==
    /\ CanCall(c)
    /\ LET request == RequestOf(GetStudentRequests, student_id)
       IN IF ~request.valid
          THEN Respond("get_student", <<student_id>>, FALSE, "Validation error", <<>>)
          ELSE \/ IF ByStudentId(request.student_id) = {}
                  THEN Respond("get_student", <<student_id>>, FALSE,
                               "Student not found", <<>>)
                  ELSE \E student \in ByStudentId(request.student_id) :
                          Respond("get_student", <<student_id>>, TRUE,
                                  "Student retrieved successfully",
                                  <<student_to_response(student)>>)
               \/ Respond("get_student", <<student_id>>, FALSE,
                          "Error retrieving student", <<>>)
    /\ UNCHANGED <<students, activity_log, clock, next_id, call, quota>>
    /\ UNCHANGED <<chunkVars, ragVars, memVars>>

\* line 277: the new value of is_active is read as a flag
TrueWords == {<<"t", "r", "u", "e">>, <<"1">>, <<"y", "e", "s">>,
              <<"a", "c", "t", "i", "v", "e">>}

\* lines 269-283 of update_student: the request is validated, the student is
\* loaded and the new value is set on it
update_student(c, student_id, field, new_value) ==
    /\ CanCall(c)
    /\ LET args == <<student_id, field, new_value>>
           request == RequestOf(UpdateStudentRequests, args)
       IN IF ~request.valid
          THEN /\ Respond("update_student", args, FALSE, "Validation error", <<>>)
               /\ UNCHANGED call
          ELSE \/ /\ Respond("update_student", args, FALSE,
                              "Error updating student", <<>>)
                  /\ UNCHANGED call
               \/ /\ ByStudentId(request.student_id) = {}
                  /\ Respond("update_student", args, FALSE, "Student not found",
                             <<>>)
                  /\ UNCHANGED call
               \/ /\ CanWrite
                  /\ \E student \in ByStudentId(request.student_id) :
                        call' = [call EXCEPT ![c] =
                           <<[op |-> "update_student", args |-> args,
                              request |-> [request EXCEPT !.new_value =
                                 IF field = "is_active"
                                 THEN lower(request.new_value) \in TrueWords
                                 ELSE request.new_value],
                              loaded |-> <<student>>, stamps |-> <<>>]>>]
                  /\ UNCHANGED response
    /\ UNCHANGED <<students, activity_log, clock, next_id, quota>>
    /\ UNCHANGED <<chunkVars, ragVars, memVars>>

\* line 284 of update_student: student.updated_at = get_pkt_time()
update_student_updated_at(c) ==
    /\ At(c, {"update_student"})
    /\ response = <<>>
    /\ \E now \in get_pkt_time :
          /\ clock' = now
          /\ GoOn(c, "update_student_updated_at", call[c][1].loaded,
                  Append(call[c][1].stamps, now))
    /\ UNCHANGED <<students, activity_log, next_id, response, quota>>
    /\ UNCHANGED <<chunkVars, ragVars, memVars>>

\* lines 286-292 of update_student: the log entry is built, with
\* timestamp=get_pkt_time()
update_student_timestamp(c) ==
    /\ At(c, {"update_student_updated_at"})
    /\ response = <<>>
    /\ \E now \in get_pkt_time :
          /\ clock' = now
          /\ GoOn(c, "update_student_timestamp", call[c][1].loaded,
                  Append(call[c][1].stamps, now))
    /\ UNCHANGED <<students, activity_log, next_id, response, quota>>
    /\ UNCHANGED <<chunkVars, ragVars, memVars>>

\* lines 293-306 of update_student: the UPDATE of the loaded row (by primary
\* key; a column whose value did not change is not written, and updated_at
\* always is: the time read is zone-aware and equals no loaded value) and the
\* log entry are committed, with the times read before.  A row that is gone
\* raises StaleDataError, a duplicate email IntegrityError; both are answered
\* by the handler of line 304.  An UPDATE of the email waits for the
\* transaction of another caller that holds an uncommitted row with that
\* email.
update_student_commit(c) ==
    /\ At(c, {"update_student_timestamp"})
    /\ response = <<>>
    /\ LET request == call[c][1].request
           loaded == call[c][1].loaded[1]
           stamps == call[c][1].stamps
           rows == {r \in students : r.id = loaded.id}
       IN \/ /\ Respond("update_student", call[c][1].args, FALSE,
                         "Error updating student", <<>>)
             /\ UNCHANGED <<students, activity_log>>
          \/ /\ rows # {}
             /\ LET row == CHOOSE r \in rows : TRUE
                   written == IF loaded[request.field] = request.new_value
                              THEN row
                              ELSE [row EXCEPT ![request.field] = request.new_value]
                   updated == [written EXCEPT !.updated_at = stamps[1]]
               IN /\ ~UniqueViolation(students, updated)
                  /\ request.field = "email" /\ written # row
                        => ~\E r \in Flushed(c) : r.email = updated.email
                  /\ students' = (students \ {row}) \cup {updated}
                  /\ activity_log' = activity_log \cup
                        {ActivityLog(request.student_id, "profile_update",
                                     stamps[2])}
                  /\ Respond("update_student", call[c][1].args, TRUE,
                             "Student updated successfully",
                             <<request.field, request.new_value>>)
    /\ call' = [call EXCEPT ![c] = <<>>]
    /\ UNCHANGED <<clock, next_id, quota>>
    /\ UNCHANGED <<chunkVars, ragVars, memVars>>

\* lines 315-327 of delete_student: the request is validated, the student is
\* loaded and marked deleted
delete_student(c, student_id) ==
    /\ CanCall(c)
    /\ LET request == RequestOf(GetStudentRequests, student_id)
       IN IF ~request.valid
          THEN /\ Respond("delete_student", <<student_id>>, FALSE,
                          "Validation error", <<>>)
               /\ UNCHANGED call
          ELSE \/ /\ Respond("delete_student", <<student_id>>, FALSE,
                              "Error deleting student", <<>>)
                  /\ UNCHANGED call
               \/ /\ ByStudentId(request.student_id) = {}
                  /\ Respond("delete_student", <<student_id>>, FALSE,
                             "Student not found", <<>>)
                  /\ UNCHANGED call
               \/ /\ CanWrite
                  /\ \E student \in ByStudentId(request.student_id) :
                        call' = [call EXCEPT ![c] =
                           <<[op |-> "delete_student", args |-> <<student_id>>,
                              request |-> request, loaded |-> <<student>>,
                              stamps |-> <<>>]>>]
                  /\ UNCHANGED response
    /\ UNCHANGED <<students, activity_log, clock, next_id, quota>>
    /\ UNCHANGED <<chunkVars, ragVars, memVars>>

\* lines 329-335 of delete_student: the log entry is built, with
\* timestamp=get_pkt_time()
delete_student_timestamp(c) ==
    /\ At(c, {"delete_student"})
    /\ response = <<>>
    /\ \E now \in get_pkt_time :
          /\ clock' = now
          /\ GoOn(c, "delete_student_timestamp", call[c][1].loaded,
                  Append(call[c][1].stamps, now))
    /\ UNCHANGED <<students, activity_log, next_id, response, quota>>
    /\ UNCHANGED <<chunkVars, ragVars, memVars>>

\* lines 336-348 of delete_student: the DELETE of the loaded row and the log
\* entry, with the time read before, are committed.  A DELETE that matches no
\* row, the row being gone, is only warned about (the mapper has no version
\* counter): the log entry is committed all the same and the tool answers
\* success.
delete_student_commit(c) ==
    /\ At(c, {"delete_student_timestamp"})
    /\ response = <<>>
    /\ LET request == call[c][1].request
           loaded == call[c][1].loaded[1]
           rows == {r \in students : r.id = loaded.id}
       IN \/ /\ Respond("delete_student", call[c][1].args, FALSE,
                         "Error deleting student", <<>>)
             /\ UNCHANGED <<students, activity_log>>
          \/ /\ students' = students \ rows
             /\ activity_log' = activity_log \cup
                   {ActivityLog(request.student_id, "student_deleted",
                                call[c][1].stamps[1])}
             /\ Respond("delete_student", call[c][1].args, TRUE,
                        "Student deleted successfully", <<>>)
    /\ call' = [call EXCEPT ![c] = <<>>]
    /\ UNCHANGED <<clock, next_id, quota>>
    /\ UNCHANGED <<chunkVars, ragVars, memVars>>

\* lines 421-449
get_recent_onboarded_students(c, limit) ==
    /\ CanCall(c)
    /\ LET request == RecentStudentsRequest(limit)
       IN IF ~request.valid
          THEN Respond("get_recent_onboarded_students", <<limit>>, FALSE,
                       "Validation error", <<>>)
          ELSE \/ \E ordered \in OrderByCreatedDesc(students) :
                     LET recent_students ==
                            SubSeq(ordered, 1, Min(request.limit, Len(ordered)))
                     IN Respond("get_recent_onboarded_students", <<limit>>, TRUE,
                                "Recent students retrieved successfully",
                                [i \in 1..Len(recent_students) |->
                                    student_to_response(recent_students[i])])
               \/ Respond("get_recent_onboarded_students", <<limit>>, FALSE,
                          "Error getting recent students", <<>>)
    /\ UNCHANGED <<students, activity_log, clock, next_id, call, quota>>
    /\ UNCHANGED <<chunkVars, ragVars, memVars>>

\* Student.is_active == True
ActiveStudents(rows) == {r \in rows : r.is_active}

\* lines 374-380 of get_total_students: the first count query
get_total_students(c) ==
    /\ CanCall(c)
    /\ \/ /\ Respond("get_total_students", <<>>, FALSE,
                       "Error getting student count", <<>>)
          /\ UNCHANGED call
       \/ /\ call' = [call EXCEPT ![c] =
                        <<[op |-> "get_total_students", args |-> <<>>,
                           total |-> Cardinality(students),
                           snapshot |-> Cardinality(ActiveStudents(students))]>>]
          /\ UNCHANGED response
    /\ UNCHANGED <<students, activity_log, clock, next_id, quota>>
    /\ UNCHANGED <<chunkVars, ragVars, memVars>>

\* lines 381-395 of get_total_students: the second count query, in the same
\* session, and the response.  The query counts the rows committed by now
\* (READ COMMITTED, the default of PostgreSQL and others) or those of the
\* transaction's snapshot (REPEATABLE READ and above): DATABASE_URL decides.
get_total_students_active(c) ==
    /\ call[c] # <<>> /\ call[c][1].op = "get_total_students"
    /\ response = <<>>
    /\ \/ Respond("get_total_students", <<>>, FALSE,
                   "Error getting student count", <<>>)
       \/ \E active \in {Cardinality(ActiveStudents(students)),
                          call[c][1].snapshot} :
             LET total == call[c][1].total
             IN Respond("get_total_students", <<>>, TRUE,
                        "Student count retrieved successfully",
                        <<[total_students |-> total, active_students |-> active,
                           inactive_students |-> total - active]>>)
    /\ call' = [call EXCEPT ![c] = <<>>]
    /\ UNCHANGED <<students, activity_log, clock, next_id, quota>>
    /\ UNCHANGED <<chunkVars, ragVars, memVars>>

\* the caller has taken the response
ReturnResponse ==
    /\ response # <<>>
    /\ response' = <<>>
    /\ UNCHANGED <<students, activity_log, clock, next_id, call, quota>>
    /\ UNCHANGED <<chunkVars, ragVars, memVars>>

\* the rows add_student stores for the arguments a, called at time 0 on a
\* table whose next primary key is id
StoredBy(id, a) ==
    LET request == AddStudentRequest(a[1], a[2], a[3], a[4])
    IN [student |-> Student(id, request, 0, 0),
        activity |-> [id |-> id, student_id |-> request.student_id,
                      activity_type |-> "student_created", timestamp |-> 0]]

\* the database as an earlier run left it: the students that add_student
\* stored for the first n of these arguments (those of test_validations.py,
\* lines 24-29, first), with their log entries
EarlierAdds ==
    << <<<<"j", "o">>, <<"s", "t", "1">>, <<"c", "s">>, <<"a", "@", "x", ".", "c">>>>,
       <<<<"j", "o">>, <<"s", "t", "2">>, <<"c", "s">>, <<"b", "@", "x", ".", "c">>>> >>
RosterStored(n) ==
    /\ students = {StoredBy(i, EarlierAdds[i]).student : i \in 1..n}
    /\ activity_log = {StoredBy(i, EarlierAdds[i]).activity : i \in 1..n}
    /\ clock = 0 /\ next_id = n + 1
    /\ call = [c \in Callers |-> <<>>] /\ response = <<>>

\* the tools start on an empty database or on the one an earlier run left,
\* with a workload of MaxWrites rows more for the log
InitRoster ==
    /\ ChunkIdle /\ RagIdle /\ MemIdle
    /\ RosterEmpty \/ RosterStored(Len(EarlierAdds))
    /\ quota = Cardinality(activity_log) + MaxWrites

NextRoster ==
    \/ \E c \in Callers, a \in AddInputs : add_student(c, a[1], a[2], a[3], a[4])
    \/ \E c \in Callers : add_student_created_at(c)
    \/ \E c \in Callers : add_student_updated_at(c)
    \/ \E c \in Callers : add_student_flush(c)
    \/ \E c \in Callers : add_student_timestamp(c)
    \/ \E c \in Callers : add_student_commit(c)
    \/ \E c \in Callers : add_student_response(c)
    \/ \E c \in Callers, student_id \in GetIdInputs : get_student(c, student_id)
    \/ \E c \in Callers, student_id \in UpdateIdInputs, u \in UpdateInputs :
          update_student(c, student_id, u[1], u[2])
    \/ \E c \in Callers : update_student_updated_at(c)
    \/ \E c \in Callers : update_student_timestamp(c)
    \/ \E c \in Callers : update_student_commit(c)
    \/ \E c \in Callers, student_id \in UpdateIdInputs : delete_student(c, student_id)
    \/ \E c \in Callers : delete_student_timestamp(c)
    \/ \E c \in Callers : delete_student_commit(c)
    \/ \E c \in Callers, limit \in LimitInputs :
          get_recent_onboarded_students(c, limit)
    \/ ReturnResponse

SpecRoster == InitRoster /\ [][NextRoster]_vars

\* the student tools under a workload long enough for the races of two
\* callers on a stored student
InitRaces ==
    /\ ChunkIdle /\ RagIdle /\ MemIdle
    /\ RosterStored(Len(EarlierAdds) - 1)
    /\ quota = Cardinality(activity_log) + MaxRaceWrites
SpecRaces == InitRaces /\ [][NextRoster]_vars

\* the student tools with get_total_students beside them
NextCounts ==
    \/ NextRoster
    \/ \E c \in Callers : get_total_students(c)
    \/ \E c \in Callers : get_total_students_active(c)

SpecCounts == InitRoster /\ [][NextCounts]_vars


(***************************************************************************)
(* The conversation memory: backend/memory_store.py and the endpoints of   *)
(* backend/main.py that use it (SpecMemory).                               *)
(*                                                                         *)
(* A collection is the sequence of its documents in insertion order.  The  *)
(* driver gives every inserted document an _id (oid) and stores a datetime *)
(* in milliseconds, so two documents may carry the same timestamp.  Every  *)
(* function starts with a truth test of the collection object: the module  *)
(* bound None when the connection could not be set up ("none"), an object  *)
(* that is true (pymongo 3: "truthy"), or an object whose truth test       *)
(* raises NotImplementedError (pymongo 4: "strict").  Any operation on the *)
(* server may fail with a PyMongoError, which the function prints.         *)
(***************************************************************************)
Deployments == {"none", "truthy", "strict"}
\* the (user_id, thread_id) pairs of the requests: a thread, another thread of
\* the same user, and the same thread id under another user
Conversations == {<<"u1", "t1">>, <<"u1", "t2">>, <<"u2", "t1">>}
\* the (user_id, thread_id, message, role) arguments of the saves
SaveInputs ==
    {<<"u1", "t1", "hi", "user">>, <<"u1", "t1", "ok", "assistant">>,
     <<"u1", "t2", "hi", "user">>, <<"u2", "t1", "hi", "user">>}
Queries == {"hi"}
\* what the agent answers
Answers == {"ok"}
\* what the agent streams: the deltas of an answer, and a blank answer
Streams == {<<"o", "k">>, <<" ">>}
\* the pair the streamed requests are made for
StreamConversations == {<<"u1", "t1">>}
\* the deltas of those streams
Deltas == UNION {{stream[i] : i \in DOMAIN stream} : stream \in Streams}
Users == {"u1", "u2"}
GetLimits == {0, 1, 2}
ContextLimit == 10
LongTermLimit == 20
SummaryLimit == 50

\* memory_store.py:22,37,51,62: what `if not <collection>:` does
TruthTest ==
    CASE mongo = "none"   -> "return"
      [] mongo = "strict" -> "NotImplementedError"
      [] mongo = "truthy" -> "proceed"

\* memory_store.py:25-31: the inserted document
ShortTermDoc(oid, user_id, thread_id, role, message, now) ==
    [oid |-> oid, user_id |-> user_id, thread_id |-> thread_id, role |-> role,
     message |-> message, timestamp |-> now]

\* memory_store.py:65-70
LongTermDoc(oid, user_id, summary, tags, now) ==
    [oid |-> oid, user_id |-> user_id, summary |-> summary, tags |-> tags,
     timestamp |-> now]

\* datetime.utcnow() at an insert: the millisecond of the latest insert, or later
Now == {utcnow, utcnow + 1}

\* the driver can still insert a document
CanInsert == next_oid <= MaxInserts

\* memory_store.py:40-41: find({"user_id": ..., "thread_id": ...})
find(col, user_id, thread_id) ==
    SelectSeq(col, LAMBDA d : d.user_id = user_id /\ d.thread_id = thread_id)

\* delete_many(filter) that succeeds: the documents of col outside the filter
delete_many(col, user_id, thread_id) ==
    SelectSeq(col, LAMBDA d : ~(d.user_id = user_id /\ d.thread_id = thread_id))

\* delete_many that raises PyMongoError: the delete of several documents is
\* not atomic, so any of the documents `matching` may be gone already
delete_many_failed(col, matching) ==
    {SelectSeq(col, LAMBDA d : d.oid \notin gone) :
        gone \in SUBSET {matching[i].oid : i \in DOMAIN matching}}

Orders(n) ==
    {p \in [1..n -> 1..n] : \A i, j \in 1..n : i # j => p[i] # p[j]}

\* memory_store.py:42: sort("timestamp", -1); the order of documents with
\* equal timestamps is the server's choice
cursor_sort(s) ==
    { [i \in 1..Len(s) |-> s[p[i]]] :
        p \in {q \in Orders(Len(s)) :
                 \A i \in 1..(Len(s) - 1) :
                     s[q[i]].timestamp >= s[q[i + 1]].timestamp} }

Abs(n) == IF n < 0 THEN 0 - n ELSE n

\* memory_store.py:42: limit(n); a limit of 0 is no limit, a negative limit
\* is its absolute value
cursor_limit(s, n) ==
    IF n = 0 THEN s ELSE SubSeq(s, 1, Min(Abs(n), Len(s)))

\* memory_store.py:43: list(docs)[::-1]
Reverse(s) == [i \in 1..Len(s) |-> s[Len(s) + 1 - i]]

Outcome(raised, value) == [raised |-> raised, value |-> value]

\* memory_store.py:35-46: the outcomes of one call
get_short_term_memory(user_id, thread_id, n) ==
    CASE TruthTest = "return" -> {Outcome(None, <<>>)}
      [] TruthTest = "NotImplementedError" ->
            {Outcome("NotImplementedError", <<>>)}
      [] TruthTest = "proceed" ->
            {Outcome(None, Reverse(cursor_limit(s, n))) :
                 s \in cursor_sort(find(short_term_col, user_id, thread_id))}
            \cup {Outcome(None, <<>>)}

\* memory_store.py:49-56: the outcomes of one call, col: the collection after it
clear_short_term_memory(user_id, thread_id) ==
    CASE TruthTest = "return" -> {[raised |-> None, col |-> short_term_col]}
      [] TruthTest = "NotImplementedError" ->
            {[raised |-> "NotImplementedError", col |-> short_term_col]}
      [] TruthTest = "proceed" ->
            {[raised |-> None,
              col |-> delete_many(short_term_col, user_id, thread_id)]}
            \cup {[raised |-> None, col |-> left] :
                     left \in delete_many_failed(short_term_col,
                                find(short_term_col, user_id, thread_id))}

\* memory_store.py:80: find({"user_id": ...})
find_by_user(col, user_id) == SelectSeq(col, LAMBDA d : d.user_id = user_id)

\* memory_store.py:75-84: the outcomes of one call
get_long_term_memory(user_id, n) ==
    CASE TruthTest = "return" -> {Outcome(None, <<>>)}
      [] TruthTest = "NotImplementedError" ->
            {Outcome("NotImplementedError", <<>>)}
      [] TruthTest = "proceed" ->
            {Outcome(None, Reverse(cursor_limit(s, n))) :
                 s \in cursor_sort(find_by_user(long_term_col, user_id))}
            \cup {Outcome(None, <<>>)}

\* memory_store.py:87-94: the outcomes of one call, col: the collection after it
clear_long_term_memory(user_id) ==
    CASE TruthTest = "return" -> {[raised |-> None, col |-> long_term_col]}
      [] TruthTest = "NotImplementedError" ->
            {[raised |-> "NotImplementedError", col |-> long_term_col]}
      [] TruthTest = "proceed" ->
            {[raised |-> None,
              col |-> SelectSeq(long_term_col, LAMBDA d : d.user_id # user_id)]}
            \cup {[raised |-> None, col |-> left] :
                     left \in delete_many_failed(long_term_col,
                                find_by_user(long_term_col, user_id))}

\* memory_store.py:60-72: the outcomes of one call
save_long_term_memory(user_id, summary, tags) ==
    LET same == [col |-> long_term_col, oid |-> next_oid, now |-> utcnow]
    IN CASE TruthTest = "return" -> {[raised |-> None, to |-> same]}
         [] TruthTest = "NotImplementedError" ->
               {[raised |-> "NotImplementedError", to |-> same]}
         [] TruthTest = "proceed" ->
               {[raised |-> None, to |-> same]}
               \cup IF CanInsert
                    THEN {[raised |-> None,
                           to |-> [col |-> Append(long_term_col,
                                       LongTermDoc(next_oid, user_id, summary,
                                                   tags, now)),
                                   oid |-> next_oid + 1, now |-> now]] :
                             now \in Now}
                    ELSE {}

\* main.py:52,129: one line "role: message" per message
convo_text(past_messages) ==
    [i \in 1..Len(past_messages) |->
        <<past_messages[i].role, ": ", past_messages[i].message>>]

\* main.py:130-137: what the agent answers to the summary prompt
Summary(text) == <<"summary", text>>

\* what a function or an endpoint handed back: the exception it raised, or
\* its value
Reply(op, args, raised, value) ==
    <<[op |-> op, args |-> args, raised |-> raised, value |-> value]>>

\* main.py:127,145-150 and the HTTPException details of lines 124,135
Message(message, summary) == [message |-> message, summary |-> summary]

\* memory_store.py:20-33: the outcomes of one call
save_short_term_memory(user_id, thread_id, message, role) ==
    LET same == [col |-> short_term_col, oid |-> next_oid, now |-> utcnow]
    IN CASE TruthTest = "return" -> {[raised |-> None, to |-> same]}
         [] TruthTest = "NotImplementedError" ->
               {[raised |-> "NotImplementedError", to |-> same]}
         [] TruthTest = "proceed" ->
               {[raised |-> None, to |-> same]}
               \cup IF CanInsert
                    THEN {[raised |-> None,
                           to |-> [col |-> Append(short_term_col,
                                       ShortTermDoc(next_oid, user_id, thread_id,
                                                    role, message, now)),
                                   oid |-> next_oid + 1, now |-> now]] :
                             now \in Now}
                    ELSE {}

\* a caller runs save_short_term_memory and gets its result
CallSaveShortTermMemory(user_id, thread_id, message, role) ==
    /\ reply = <<>>
    /\ \E o \in save_short_term_memory(user_id, thread_id, message, role) :
          /\ short_term_col' = o.to.col
          /\ next_oid' = o.to.oid
          /\ utcnow' = o.to.now
          /\ reply' = Reply("save_short_term_memory",
                            <<user_id, thread_id, message, role>>, o.raised, <<>>)
    /\ UNCHANGED <<mongo, long_term_col, thread_call>>
    /\ UNCHANGED <<chunkVars, ragVars, rosterVars>>

\* a caller runs get_short_term_memory and gets its result
CallGetShortTermMemory(user_id, thread_id, n) ==
    /\ reply = <<>>
    /\ \E o \in get_short_term_memory(user_id, thread_id, n) :
          reply' = Reply("get_short_term_memory", <<user_id, thread_id, n>>,
                         o.raised, o.value)
    /\ UNCHANGED <<mongo, short_term_col, long_term_col, next_oid, utcnow,
                   thread_call>>
    /\ UNCHANGED <<chunkVars, ragVars, rosterVars>>

\* a caller runs clear_short_term_memory and gets its result
CallClearShortTermMemory(user_id, thread_id) ==
    /\ reply = <<>>
    /\ \E o \in clear_short_term_memory(user_id, thread_id) :
          /\ short_term_col' = o.col
          /\ reply' = Reply("clear_short_term_memory", <<user_id, thread_id>>,
                            o.raised, <<>>)
    /\ UNCHANGED <<mongo, long_term_col, next_oid, utcnow, thread_call>>
    /\ UNCHANGED <<chunkVars, ragVars, rosterVars>>

\* a caller runs get_long_term_memory with its default limit and gets its result
CallGetLongTermMemory(user_id) ==
    /\ reply = <<>>
    /\ \E o \in get_long_term_memory(user_id, LongTermLimit) :
          reply' = Reply("get_long_term_memory", <<user_id>>, o.raised, o.value)
    /\ UNCHANGED <<mongo, short_term_col, long_term_col, next_oid, utcnow,
                   thread_call>>
    /\ UNCHANGED <<chunkVars, ragVars, rosterVars>>

\* a caller runs clear_long_term_memory and gets its result
CallClearLongTermMemory(user_id) ==
    /\ reply = <<>>
    /\ \E o \in clear_long_term_memory(user_id) :
          /\ long_term_col' = o.col
          /\ reply' = Reply("clear_long_term_memory", <<user_id>>, o.raised, <<>>)
    /\ UNCHANGED <<mongo, short_term_col, next_oid, utcnow, thread_call>>
    /\ UNCHANGED <<chunkVars, ragVars, rosterVars>>

\* main.py:50-53: the text build_context returns, as its pieces
enhanced_query(past_messages, query) ==
    IF past_messages = <<>>
    THEN << <<query>> >>
    ELSE << <<"Previous conversation:">> >> \o convo_text(past_messages)
         \o << <<"User: ", query>> >>

\* main.py:44-48: the messages build_context goes on with after the call o
\* of get_short_term_memory
past_messages_of(o) == IF o.raised # None THEN <<>> ELSE o.value

\* main.py:42-53
build_context(user_id, thread_id, query) ==
    /\ reply = <<>>
    /\ \E o \in get_short_term_memory(user_id, thread_id, ContextLimit) :
          reply' = Reply("build_context", <<user_id, thread_id, query>>, None,
                         enhanced_query(past_messages_of(o), query))
    /\ UNCHANGED <<mongo, short_term_col, long_term_col, next_oid, utcnow,
                   thread_call>>
    /\ UNCHANGED <<chunkVars, ragVars, rosterVars>>

\* main.py:118-133: end_thread up to the await of the agent's summary
end_thread(user_id, thread_id) ==
    /\ reply = <<>>
    /\ thread_call = <<>>
    /\ \E o \in get_short_term_memory(user_id, thread_id, SummaryLimit) :
          IF o.raised # None
          THEN /\ reply' = Reply("end_thread", <<user_id, thread_id>>,
                                 "HTTPException",
                                 Message("Memory fetch error", <<>>))
               /\ UNCHANGED thread_call
          ELSE IF o.value = <<>>
          THEN /\ reply' = Reply("end_thread", <<user_id, thread_id>>, None,
                          Message("No conversation found to summarize.", <<>>))
               /\ UNCHANGED thread_call
          ELSE /\ thread_call' = <<[op |-> "end_thread",
                                    user_id |-> user_id, thread_id |-> thread_id,
                                    past_messages |-> o.value]>>
               /\ UNCHANGED reply
    /\ UNCHANGED <<mongo, short_term_col, long_term_col, next_oid, utcnow>>
    /\ UNCHANGED <<chunkVars, ragVars, rosterVars>>

\* main.py:133-150: the agent has answered or failed; the summary is saved,
\* the thread cleared and the answer returned
end_thread_summarized ==
    /\ reply = <<>>
    /\ thread_call # <<>>
    /\ thread_call[1].op = "end_thread"
    /\ LET t == thread_call[1]
           summary == Summary(convo_text(t.past_messages))
       IN \/ /\ reply' = Reply("end_thread", <<t.user_id, t.thread_id>>,
                               "HTTPException",
                               Message("Agent error during summary", <<>>))
             /\ UNCHANGED <<short_term_col, long_term_col, next_oid, utcnow>>
          \/ \E s \in save_long_term_memory(t.user_id, summary,
                                            <<"thread_summary">>) :
                /\ long_term_col' = s.to.col
                /\ next_oid' = s.to.oid
                /\ utcnow' = s.to.now
                /\ IF s.raised # None
                   THEN UNCHANGED short_term_col
                   ELSE \E c \in clear_short_term_memory(t.user_id, t.thread_id) :
                           short_term_col' = c.col
                /\ reply' = Reply("end_thread", <<t.user_id, t.thread_id>>, None,
                        Message("Thread summarized and saved to long-term memory.",
                                summary))
    /\ thread_call' = <<>>
    /\ UNCHANGED mongo
    /\ UNCHANGED <<chunkVars, ragVars, rosterVars>>

\* main.py:56-69: the user's message is saved, the context built and handed
\* to the agent
chat_endpoint(user_id, thread_id, query) ==
    /\ reply = <<>>
    /\ thread_call = <<>>
    /\ UNCHANGED mongo
    /\ \E s \in save_short_term_memory(user_id, thread_id, query, "user") :
          /\ short_term_col' = s.to.col
          /\ next_oid' = s.to.oid
          /\ utcnow' = s.to.now
    /\ \E o \in (get_short_term_memory(user_id, thread_id, ContextLimit))' :
          thread_call' = <<[op |-> "chat_endpoint",
                            user_id |-> user_id, thread_id |-> thread_id,
                            query |-> query,
                            enhanced_query |->
                                enhanced_query(past_messages_of(o), query)]>>
    /\ UNCHANGED <<long_term_col, reply>>
    /\ UNCHANGED <<chunkVars, ragVars, rosterVars>>

\* main.py:69-82: the agent has answered or failed; the answer is saved and
\* returned
chat_endpoint_answered(response_text) ==
    /\ reply = <<>>
    /\ thread_call # <<>>
    /\ thread_call[1].op = "chat_endpoint"
    /\ LET t == thread_call[1]
       IN \/ /\ reply' = Reply("chat_endpoint", <<t.user_id, t.thread_id, t.query>>,
                               "HTTPException", Message("Agent error", <<>>))
             /\ UNCHANGED <<short_term_col, next_oid, utcnow>>
          \/ \E s \in save_short_term_memory(t.user_id, t.thread_id,
                                             response_text, "assistant") :
                /\ short_term_col' = s.to.col
                /\ next_oid' = s.to.oid
                /\ utcnow' = s.to.now
                /\ reply' = Reply("chat_endpoint",
                                  <<t.user_id, t.thread_id, t.query>>, None,
                                  Message(response_text, <<>>))
    /\ thread_call' = <<>>
    /\ UNCHANGED <<mongo, long_term_col>>
    /\ UNCHANGED <<chunkVars, ragVars, rosterVars>>

\* main.py:85-95: chat_stream_endpoint saves the user's message, builds the
\* context and starts the streamed run
chat_stream_endpoint(user_id, thread_id, query) ==
    /\ reply = <<>>
    /\ thread_call = <<>>
    /\ UNCHANGED mongo
    /\ \E s \in save_short_term_memory(user_id, thread_id, query, "user") :
          /\ short_term_col' = s.to.col
          /\ next_oid' = s.to.oid
          /\ utcnow' = s.to.now
    /\ \E o \in (get_short_term_memory(user_id, thread_id, ContextLimit))' :
          thread_call' = <<[op |-> "chat_stream_endpoint",
                            user_id |-> user_id, thread_id |-> thread_id,
                            query |-> query,
                            enhanced_query |->
                                enhanced_query(past_messages_of(o), query),
                            yielded |-> <<>>, broke |-> FALSE]>>
    /\ UNCHANGED <<long_term_col, reply>>
    /\ UNCHANGED <<chunkVars, ragVars, rosterVars>>

\* main.py:98-102: the deltas added up
RECURSIVE response_text_of(_)
response_text_of(deltas) ==
    IF deltas = <<>> THEN ""
    ELSE response_text_of(SubSeq(deltas, 1, Len(deltas) - 1)) \o deltas[Len(deltas)]

\* main.py:109: response_text.strip() is empty (every delta is one character)
StripsToNothing(deltas) == \A i \in DOMAIN deltas : IsWhitespace(deltas[i])

\* main.py:106: the text the generator yields for an exception of the stream
StreamError == "[Error streaming response]"

\* what the client of the stream received
Streamed(deltas, broke) ==
    [streamed |-> IF broke THEN Append(deltas, StreamError) ELSE deltas]

\* the streamed request whose generator has not ended
Streaming ==
    reply = <<>> /\ thread_call # <<>> /\ thread_call[1].op = "chat_stream_endpoint"

\* main.py:100-103: the stream gives its next delta, which event_generator
\* adds to response_text and yields to the client
chat_stream_delta(delta) ==
    /\ Streaming
    /\ ~thread_call[1].broke
    /\ LET deltas == Append(thread_call[1].yielded, delta)
       IN /\ \E stream \in Streams :
                Len(deltas) <= Len(stream) /\ SubSeq(stream, 1, Len(deltas)) = deltas
          /\ thread_call' = <<[thread_call[1] EXCEPT !.yielded = deltas]>>
    /\ UNCHANGED <<mongo, short_term_col, long_term_col, next_oid, utcnow, reply>>
    /\ UNCHANGED <<chunkVars, ragVars, rosterVars>>

\* main.py:104-106: the stream raises, and event_generator yields the error
\* text
chat_stream_error ==
    /\ Streaming
    /\ ~thread_call[1].broke
    /\ thread_call' = <<[thread_call[1] EXCEPT !.broke = TRUE]>>
    /\ UNCHANGED <<mongo, short_term_col, long_term_col, next_oid, utcnow, reply>>
    /\ UNCHANGED <<chunkVars, ragVars, rosterVars>>

\* main.py:108-113: the stream has ended, or the client has taken the error
\* text: event_generator saves the deltas it yielded, unless they are blank,
\* and ends
chat_stream_answered ==
    /\ Streaming
    /\ thread_call[1].broke \/ thread_call[1].yielded \in Streams
    /\ LET t == thread_call[1]
       IN /\ IF StripsToNothing(t.yielded)
             THEN UNCHANGED <<short_term_col, next_oid, utcnow>>
             ELSE \E s \in save_short_term_memory(t.user_id, t.thread_id,
                                  response_text_of(t.yielded), "assistant") :
                     /\ short_term_col' = s.to.col
                     /\ next_oid' = s.to.oid
                     /\ utcnow' = s.to.now
          /\ reply' = Reply("chat_stream_endpoint",
                            <<t.user_id, t.thread_id, t.query>>, None,
                            Streamed(t.yielded, t.broke))
    /\ thread_call' = <<>>
    /\ UNCHANGED <<mongo, long_term_col>>
    /\ UNCHANGED <<chunkVars, ragVars, rosterVars>>

\* main.py:115: the client of the StreamingResponse goes away and the
\* generator is closed where it stands, at a yield or waiting for the next
\* event: GeneratorExit and CancelledError are no Exception, so line 104 does
\* not catch them and nothing is saved
chat_stream_closed ==
    /\ Streaming
    /\ LET t == thread_call[1]
       IN reply' = Reply("chat_stream_endpoint",
                         <<t.user_id, t.thread_id, t.query>>, None,
                         Streamed(t.yielded, t.broke))
    /\ thread_call' = <<>>
    /\ UNCHANGED <<mongo, short_term_col, long_term_col, next_oid, utcnow>>
    /\ UNCHANGED <<chunkVars, ragVars, rosterVars>>

\* the caller has taken the result
ReturnReply ==
    /\ reply # <<>>
    /\ reply' = <<>>
    /\ UNCHANGED <<mongo, short_term_col, long_term_col, next_oid, utcnow,
                   thread_call>>
    /\ UNCHANGED <<chunkVars, ragVars, rosterVars>>

InitMemory ==
    /\ ChunkIdle /\ RagIdle /\ RosterIdle
    /\ mongo \in Deployments
    /\ short_term_col = <<>> /\ long_term_col = <<>>
    /\ next_oid = 1 /\ utcnow = 0 /\ thread_call = <<>> /\ reply = <<>>

NextMemory ==
    \/ \E a \in SaveInputs : CallSaveShortTermMemory(a[1], a[2], a[3], a[4])
    \/ \E c \in Conversations, n \in GetLimits :
          CallGetShortTermMemory(c[1], c[2], n)
    \/ \E c \in Conversations : CallClearShortTermMemory(c[1], c[2])
    \/ \E c \in Conversations, query \in Queries : build_context(c[1], c[2], query)
    \/ \E c \in Conversations : end_thread(c[1], c[2])
    \/ end_thread_summarized
    \/ \E c \in Conversations, query \in Queries : chat_endpoint(c[1], c[2], query)
    \/ \E response_text \in Answers : chat_endpoint_answered(response_text)
    \/ \E c \in StreamConversations, query \in Queries :
          chat_stream_endpoint(c[1], c[2], query)
    \/ \E delta \in Deltas : chat_stream_delta(delta)
    \/ chat_stream_error
    \/ chat_stream_answered
    \/ chat_stream_closed
    \/ \E user_id \in Users : CallGetLongTermMemory(user_id)
    \/ \E user_id \in Users : CallClearLongTermMemory(user_id)
    \/ ReturnReply

SpecMemory == InitMemory /\ [][NextMemory]_vars


(***************************************************************************)
(* The fixture "A. B. C.", checked under SpecFixture.                      *)
(***************************************************************************)
ChunkTexts == [i \in 1..Len(chunks) |-> chunks[i].text]

FixtureDone ==
    /\ cpc = "done" /\ document = FixtureText
    /\ in_size = 4 /\ in_overlap = 1 /\ in_seps = FixtureSeparators

\* C14 (as claimed): "A. B. C." with max_size 4, overlap 1 and the separator
\* ". " is chunked into "A.", ". B.", ". C.".
C14_FixtureAsClaimed ==
    FixtureDone =>
        ChunkTexts = << <<"A", ".">>, <<".", " ", "B", ".">>, <<".", " ", "C", ".">> >>



(***************************************************************************)
(* The claims about the student tools, checked under SpecRoster.           *)
(***************************************************************************)
\* a step in which the tool `op` returns its response
Returns(op) == response = <<>> /\ response' # <<>> /\ response'[1].op = op

\* the call of caller c commits at this step: update_student and
\* delete_student answer success with it, add_student goes on to the code after
\* its commit
Commits(c, op) ==
    /\ call[c] # <<>>
    /\ call[c][1].op = op \o "_timestamp"
    /\ IF op = "add_student"
       THEN call'[c] # <<>> /\ call'[c][1].op = "add_student_committed"
       ELSE call'[c] = <<>> /\ response' # <<>> /\ response'[1].success

\* the response of this step is that of an add_student which has committed
AnswersAfterCommit ==
    \E c \in Callers :
        /\ call[c] # <<>> /\ call[c][1].op = "add_student_committed"
        /\ call'[c] = <<>>

Blank(v) == \A i \in DOMAIN v : IsWhitespace(v[i])
InIdAlphabet(v) ==
    \A i \in DOMAIN v : IsLetter(v[i]) \/ v[i] \in Digits \/ v[i] \in {"_", "-"}

\* the inputs C15 lists: an empty or whitespace-only name, a student_id shorter
\* than 3 characters or with a character outside letters, digits, _ and -, an
\* empty department, a malformed email
ListedInvalid(args) ==
    \/ Blank(args[1])
    \/ Len(args[2]) < 3 \/ ~InIdAlphabet(args[2])
    \/ args[3] = <<>>
    \/ ~EmailOk(args[4])

\* the same, the student_id taken as the validator sees it: without the
\* characters < > ; { } and without surrounding or repeated whitespace
ListedInvalidSanitized(args) ==
    \/ Blank(args[1])
    \/ Len(args[2]) < 3
    \/ sanitize_input(args[2]) = <<>> \/ ~InIdAlphabet(sanitize_input(args[2]))
    \/ args[3] = <<>>
    \/ ~EmailOk(args[4])

RejectedUntouched ==
    /\ ~response'[1].success
    /\ response'[1].message = "Validation error"
    /\ students' = students
    /\ activity_log' = activity_log

\* C15 (as claimed): add_student with an input of the listed kinds returns
\* success = False with a message containing 'Validation error' and leaves the
\* student table and the activity log unchanged.
C15_ListedInputsRejected ==
    [][ (Returns("add_student") /\ ListedInvalid(response'[1].args))
            => RejectedUntouched ]_vars

\* C15 (amended): the same for every input the request model does not accept,
\* and for the listed kinds with the student_id judged after sanitization.
C15_InvalidInputsRejected ==
    [][ (/\ Returns("add_student")
         /\ \/ ListedInvalidSanitized(response'[1].args)
            \/ ~AddStudentRequest(response'[1].args[1], response'[1].args[2],
                                  response'[1].args[3], response'[1].args[4]).valid)
            => RejectedUntouched ]_vars

\* add_student has rejected a student_id with a space inside while the table
\* holds a student
C15_Witness ==
    /\ response # <<>>
    /\ response[1].op = "add_student"
    /\ response[1].message = "Validation error"
    /\ response[1].args[2] = <<"s", " ", "1">>
    /\ students # {} /\ activity_log # {}


\* the roster key a student_id argument stands for
KeyOf(student_id) == upper(sanitize_input(student_id))
InRoster(student_id) == \E r \in students : r.student_id = KeyOf(student_id)

Untouched == students' = students /\ activity_log' = activity_log

FoundOrNotFound ==
    LET r == response'[1]
    IN IF InRoster(r.args[1])
       THEN /\ r.success
            /\ Len(r.data) = 1
            /\ r.data[1] \in students
            /\ r.data[1].student_id = KeyOf(r.args[1])
       ELSE ~r.success /\ r.message = "Student not found"

\* C16 (as claimed): get_student for a student_id that is not in the roster
\* returns success = False with 'Student not found'; for one that is in the
\* roster it returns success = True with the student's current fields; the
\* tables are unchanged.
C16_FoundOrNotFound ==
    [][ Returns("get_student") => (Untouched /\ FoundOrNotFound) ]_vars

\* C16 (amended): so it is for a student_id of 3 to 50 characters that is not
\* empty after sanitization, unless the database query fails, which is answered
\* with 'Error retrieving student'; any other student_id is answered with
\* 'Validation error'.
C16_ValidIdFoundOrNotFound ==
    [][ Returns("get_student") =>
          /\ Untouched
          /\ IF GetStudentRequest(response'[1].args[1]).valid
             THEN \/ FoundOrNotFound
                  \/ /\ ~response'[1].success
                     /\ response'[1].message = "Error retrieving student"
             ELSE ~response'[1].success /\ response'[1].message = "Validation error"
       ]_vars

\* get_student has answered 'Student not found' for a student that was added
\* and deleted, while another student is in the roster
C16_Witness ==
    /\ response # <<>>
    /\ response[1].op = "get_student"
    /\ response[1].message = "Student not found"
    /\ students # {}
    /\ \E l \in activity_log :
          /\ l.activity_type = "student_deleted"
          /\ l.student_id = KeyOf(response[1].args[1])


\* C17 (as claimed): a limit of 100 is rejected with a validation error, the
\* maximum being 50, a limit of 10 is accepted, and the tool never returns more
\* than 50 students.
C17_LimitAtMost50 ==
    (response # <<>> /\ response[1].op = "get_recent_onboarded_students") =>
        LET r == response[1]
            limit == r.args[1]
        IN /\ limit > 50 => (~r.success /\ r.message = "Validation error")
           /\ limit = 10 => r.success
           /\ Len(r.data) <= 50


NoDuplicate(rows) ==
    \A r, q \in rows :
        r # q => (r.student_id # q.student_id /\ r.email # q.email)

\* the add_student that returns would put a second student with its
\* student_id or its email into the roster
AddWouldDuplicate ==
    LET a == response'[1].args
        request == AddStudentRequest(a[1], a[2], a[3], a[4])
    IN /\ request.valid
       /\ \E r \in students :
             r.student_id = request.student_id \/ r.email = request.email

\* the update_student that returns would give its student the email of
\* another student
UpdateWouldDuplicate ==
    LET a == response'[1].args
        request == UpdateStudentRequest(a[1], a[2], a[3])
    IN /\ request.valid
       /\ request.field = "email"
       /\ \E r \in students : r.student_id = request.student_id
       /\ \E r \in students :
             r.student_id # request.student_id /\ r.email = request.new_value

\* C18 (as claimed): no two students of the roster share a student_id or an
\* email, whatever calls ran and however they interleaved; an add_student or
\* an update_student of the email that would create a duplicate returns
\* success = False and leaves the roster unchanged.
C18_UniqueIdAndEmail ==
    [][ /\ NoDuplicate(students')
        /\ (Returns("add_student") /\ ~AnswersAfterCommit /\ AddWouldDuplicate)
              => (~response'[1].success /\ students' = students)
        /\ \A c \in Callers :
              Commits(c, "add_student") =>
                 ~\E r \in students :
                     \/ r.student_id = call[c][1].request.student_id
                     \/ r.email = call[c][1].request.email
        /\ (Returns("update_student") /\ UpdateWouldDuplicate)
              => (~response'[1].success /\ students' = students) ]_vars


(***************************************************************************)
(* The claims about the conversation memory, checked under SpecMemory.     *)
(***************************************************************************)
\* the step hands back the result of op
Replies(op) == reply = <<>> /\ reply' # <<>> /\ reply'[1].op = op

\* the last min(n, Len(s)) elements of s
LastN(s, n) == SubSeq(s, Len(s) - Min(n, Len(s)) + 1, Len(s))

\* C19: get_short_term_memory(user_id, thread_id, limit) returns the last
\* min(limit, m) of the m messages of that thread that are saved and not
\* cleared, oldest first and the most recently saved last.
C19_LastMessagesInOrder ==
    [][ Replies("get_short_term_memory") =>
          LET a == reply'[1].args
          IN /\ reply'[1].raised = None
             /\ reply'[1].value = LastN(find(short_term_col, a[1], a[2]), a[3])
      ]_vars

SummarizedMessage == "Thread summarized and saved to long-term memory."

\* the step is the second half of end_thread
EndThreadStep ==
    thread_call # <<>> /\ thread_call[1].op = "end_thread" /\ thread_call' = <<>>

\* the step stores a long-term document of the user with this summary
Stores(user_id, summary) ==
    \E i \in (Len(long_term_col) + 1)..Len(long_term_col') :
        /\ long_term_col'[i].user_id = user_id
        /\ long_term_col'[i].summary = summary

\* C20: when end_thread answers 'Thread summarized and saved to long-term
\* memory.', the summary is stored in the user's long-term memory and the
\* thread has no short-term message left; end_thread removes no short-term
\* message unless it has stored the summary of the messages it removes.
C20_SummarizedMeansStored ==
    [][ EndThreadStep =>
          LET t == thread_call[1]
              summary == Summary(convo_text(t.past_messages))
          IN /\ (reply'[1].raised = None
                 /\ reply'[1].value.message = SummarizedMessage) =>
                    /\ reply'[1].value.summary = summary
                    /\ Stores(t.user_id, summary)
                    /\ find(short_term_col', t.user_id, t.thread_id) = <<>>
             /\ short_term_col' # short_term_col =>
                    /\ Stores(t.user_id, summary)
                    /\ \A i \in 1..Len(short_term_col) :
                          (\A j \in 1..Len(short_term_col') :
                               short_term_col'[j] # short_term_col[i]) =>
                          \E k \in 1..Len(t.past_messages) :
                               t.past_messages[k] = short_term_col[i]
      ]_vars


(***************************************************************************)
(* Further claims about the student tools, checked under SpecRoster.       *)
(***************************************************************************)
\* v holds none of the characters sanitize_input removes, no whitespace at
\* either end and no two whitespace characters in a row
Cleaned(v) ==
    /\ \A i \in DOMAIN v : v[i] \notin {"<", ">", ";", "{", "}"}
    /\ v # <<>> => (~IsWhitespace(v[1]) /\ ~IsWhitespace(v[Len(v)]))
    /\ \A i \in 1..(Len(v) - 1) : ~(IsWhitespace(v[i]) /\ IsWhitespace(v[i + 1]))

\* every word of v starts with an upper-case letter and goes on in lower case
TitleCased(v) ==
    \A i \in DOMAIN v :
        IsLetter(v[i]) =>
            IF i > 1 /\ IsLetter(v[i - 1]) THEN IsLower(v[i]) ELSE IsUpper(v[i])

\* C21: in every state the tools can reach, every stored student's name and
\* department are sanitized (none of < > ; { }, no leading, trailing or
\* repeated whitespace) and title-cased, and every student_id is upper-cased.
C21_StoredDataNormalized ==
    \A r \in students :
        /\ Cleaned(r.name) /\ TitleCased(r.name)
        /\ Cleaned(r.department) /\ TitleCased(r.department)
        /\ \A i \in DOMAIN r.student_id : ~IsLower(r.student_id[i])


\* the activity type each writing tool logs
LogTypeOf(op) ==
    CASE op = "add_student" -> "student_created"
      [] op = "update_student" -> "profile_update"
      [] op = "delete_student" -> "student_deleted"

WritingTools == {"add_student", "update_student", "delete_student"}

\* the step changes the roster as the log entry l says
RosterChangeOf(l) ==
    CASE l.activity_type = "student_created" ->
            \E r \in students' \ students :
               /\ r.student_id = l.student_id
               /\ students' = students \cup {r}
      [] l.activity_type = "profile_update" ->
            \E r \in students, q \in students' :
               /\ r.student_id = l.student_id /\ q.id = r.id
               /\ students' = (students \ {r}) \cup {q}
      [] l.activity_type = "student_deleted" ->
            \E r \in students \ students' :
               /\ r.student_id = l.student_id
               /\ students' = students \ {r}
      [] OTHER -> FALSE

\* the step commits one log entry and the roster change it records
OneEntryWithItsChange ==
    /\ activity_log \subseteq activity_log'
    /\ Cardinality(activity_log' \ activity_log) = 1
    /\ \A l \in activity_log' \ activity_log : RosterChangeOf(l)

\* C24: a step that changes the roster or the activity log commits exactly one
\* log entry together with the roster change it records, and the commit of
\* every successful add_student, update_student and delete_student is such a
\* step, its entry being of the tool's type and for the student_id it was
\* called for.
C24_OneLogEntryPerChange ==
    [][ /\ (students' # students \/ activity_log' # activity_log)
           => OneEntryWithItsChange
        /\ \A c \in Callers, op \in WritingTools :
              Commits(c, op) =>
                 /\ OneEntryWithItsChange
                 /\ \A l \in activity_log' \ activity_log :
                       /\ l.activity_type = LogTypeOf(op)
                       /\ l.student_id = call[c][1].request.student_id
      ]_vars

\* C25: every call is answered with a response, and a response with
\* success = False (validation error, duplicate, not found, database error at
\* any step) comes from a call that left the student table and the activity
\* log as they were: the step that answers changes nothing, and the call it
\* ends has committed nothing before.
C25_FailureChangesNothing ==
    [][ (response = <<>> /\ response' # <<>> /\ ~response'[1].success)
           => (Untouched /\ ~AnswersAfterCommit)
      ]_vars



(***************************************************************************)
(* The claim about get_total_students, checked under SpecCounts.           *)
(***************************************************************************)
\* C26: in every successful response of get_total_students, total_students =
\* active_students + inactive_students and 0 <= active_students <=
\* total_students (inactive_students is not negative), whatever the other
\* caller commits between the two count queries.
C26_CountsAddUp ==
    (response # <<>> /\ response[1].op = "get_total_students" /\ response[1].success)
       => LET d == response[1].data[1]
          IN /\ d.total_students = d.active_students + d.inactive_students
             /\ 0 <= d.active_students /\ d.active_students <= d.total_students
             /\ d.inactive_students >= 0


(***************************************************************************)
(* The frame of update_student and the stored student_id, checked under    *)
(* SpecRoster.                                                             *)
(***************************************************************************)
StudentFields ==
    {"id", "student_id", "name", "department", "email", "is_active",
     "created_at", "updated_at"}

\* the step changes, of the student the call names, at most the field the call
\* names and updated_at, and no other row
OnlyNamedFieldChanged ==
    LET r == response'[1]
    IN \E old \in students, new \in students' :
          /\ old.student_id = KeyOf(r.args[1])
          /\ new.id = old.id
          /\ students' = (students \ {old}) \cup {new}
          /\ \A f \in StudentFields \ {r.args[2], "updated_at"} : new[f] = old[f]

\* C27: a successful update_student changes only the named field (name,
\* department, email or is_active) and updated_at of the student with that
\* student_id and leaves every other student as it is; a call that names
\* another field is answered with a validation error and changes nothing; and
\* no step changes the student_id of a row.
C27_UpdateChangesNamedFieldOnly ==
    [][ /\ Returns("update_student") =>
              IF response'[1].args[2] \in {"name", "department", "email", "is_active"}
              THEN response'[1].success => OnlyNamedFieldChanged
              ELSE /\ ~response'[1].success
                   /\ response'[1].message = "Validation error"
                   /\ Untouched
        /\ \A old \in students, new \in students' :
              new.id = old.id => new.student_id = old.student_id
      ]_vars

\* update_student has changed the name of one of two students
C27_Witness ==
    /\ response # <<>>
    /\ response[1].op = "update_student" /\ response[1].success
    /\ response[1].args[2] = "name"
    /\ Cardinality(students) = 2
    /\ \E r \in students :
          r.name = <<"c", "d">> /\ r.student_id = KeyOf(response[1].args[1])


\* C28: every student_id in the roster (each stored by add_student and never
\* changed afterwards) has between 3 and 50 characters, each an upper-case
\* letter, a digit, "_" or "-".
C28_StoredIdWellFormed ==
    \A r \in students :
        /\ Len(r.student_id) >= IdMinLen /\ Len(r.student_id) <= IdMaxLen
        /\ \A i \in DOMAIN r.student_id :
              \/ IsUpper(r.student_id[i])
              \/ r.student_id[i] \in Digits
              \/ r.student_id[i] \in {"_", "-"}


(***************************************************************************)
(* Further claims about the conversation memory, checked under SpecMemory. *)
(***************************************************************************)
\* the documents of a collection, and those saved under a pair
Docs(col) == {col[i] : i \in DOMAIN col}
SavedUnder(col, user_id, thread_id) ==
    {d \in Docs(col) : d.user_id = user_id /\ d.thread_id = thread_id}

\* the documents of col saved under another pair, in their order
Others(col, user_id, thread_id) ==
    SelectSeq(col, LAMBDA d : d \notin SavedUnder(col, user_id, thread_id))

\* get_short_term_memory hands back only documents saved under its pair
GetIsolated ==
    Replies("get_short_term_memory") =>
        \A i \in DOMAIN reply'[1].value :
            reply'[1].value[i] \in
                SavedUnder(short_term_col, reply'[1].args[1], reply'[1].args[2])

\* C22 as claimed: get_short_term_memory returns only messages saved under
\* its pair, and clear_short_term_memory(user_id, thread_id) removes exactly
\* the messages of that pair and leaves every other message and the
\* long-term memory unchanged.
C22_ClearRemovesThePair ==
    [][ /\ GetIsolated
        /\ Replies("clear_short_term_memory") =>
              LET a == reply'[1].args
              IN /\ short_term_col' = Others(short_term_col, a[1], a[2])
                 /\ long_term_col' = long_term_col ]_vars

\* the step is the first half of a chat request: the agent is handed
\* thread_call'[1].enhanced_query
ChatStep ==
    thread_call = <<>> /\ thread_call' # <<>> /\ thread_call'[1].op = "chat_endpoint"

\* C23: the query a chat endpoint hands to the agent is the thread's past
\* messages (at most 10, oldest first), which are those saved before the
\* request, followed by the current query; when the thread has no message
\* yet, it is the query unchanged.
C23_PastMessagesThenQuery ==
    [][ ChatStep =>
          LET t == thread_call'[1]
              past == LastN(find(short_term_col, t.user_id, t.thread_id),
                            ContextLimit)
          IN t.enhanced_query = enhanced_query(past, t.query) ]_vars
=============================================================================
